---- MODULE Spec2Model ----
(***************************************************************************)
(* Model of databasus-mcp: the DatabasusClient HTTP wrapper (client.ts),   *)
(* the sensitive-config redactors (storages.ts, notifiers.ts) and the MCP  *)
(* tool handlers built on them.                                            *)
(*                                                                         *)
(* JavaScript values are tagged records [t |-> tag, v |-> payload]:        *)
(*   undefined, null, boolean, number (naturals only), string,             *)
(*   array (v = sequence of values) and                                    *)
(*   object (v = sequence of <<key, value>> in insertion order).           *)
(* Strings are TLA+ strings; JSON text is parsed and produced character by *)
(* character.                                                              *)
(***************************************************************************)
EXTENDS Integers, Sequences, FiniteSets, TLC

(***************************************************************************)
(* JavaScript values                                                       *)
(***************************************************************************)
Undef == [t |-> "undefined"]
Null == [t |-> "null"]
Bool(b) == [t |-> "boolean", v |-> b]
Num(n) == [t |-> "number", v |-> n]
Str(s) == [t |-> "string", v |-> s]
Arr(items) == [t |-> "array", v |-> items]
Obj(entries) == [t |-> "object", v |-> entries]

\* typeof x === 'object' && x !== null
IsObjectLike(x) == x.t \in {"array", "object"}

\* if (x) ...
Truthy(x) ==
  CASE x.t \in {"undefined", "null"} -> FALSE
    [] x.t = "boolean" -> x.v
    [] x.t = "number" -> x.v # 0
    [] x.t = "NaN" -> FALSE
    [] x.t = "string" -> x.v # ""
    [] OTHER -> TRUE

Ch(s, i) == SubSeq(s, i, i)

Min(a, b) == IF a < b THEN a ELSE b

\* String.prototype.substring(0, n)
Substring0(s, n) == SubSeq(s, 1, Min(n, Len(s)))

\* String.prototype.includes
Includes(s, sub) ==
  \E i \in 1..(Len(s) - Len(sub) + 1) : SubSeq(s, i, i + Len(sub) - 1) = sub

UpperChars == "ABCDEFGHIJKLMNOPQRSTUVWXYZ"
LowerChars == "abcdefghijklmnopqrstuvwxyz"

LowerChar(c) ==
  IF \E i \in 1..26 : Ch(UpperChars, i) = c
  THEN Ch(LowerChars, CHOOSE i \in 1..26 : Ch(UpperChars, i) = c)
  ELSE c

RECURSIVE ToLowerCase(_)
ToLowerCase(s) ==
  IF Len(s) = 0 THEN ""
  ELSE IF Len(s) = 1 THEN LowerChar(s)
  ELSE LET h == Len(s) \div 2 IN
    ToLowerCase(SubSeq(s, 1, h)) \o ToLowerCase(SubSeq(s, h + 1, Len(s)))

\* obj[key] for a plain object; undefined when the property is missing
HasOwn(o, k) == o.t = "object" /\ \E i \in 1..Len(o.v) : o.v[i][1] = k
GetOwn(o, k) ==
  IF HasOwn(o, k) THEN o.v[CHOOSE i \in 1..Len(o.v) : o.v[i][1] = k][2] ELSE Undef

\* obj[key] = val, keeping the insertion position of an existing key
SetOwn(entries, k, val) ==
  IF \E i \in 1..Len(entries) : entries[i][1] = k
  THEN [i \in 1..Len(entries) |-> IF entries[i][1] = k THEN <<k, val>> ELSE entries[i]]
  ELSE Append(entries, <<k, val>>)

(***************************************************************************)
(* JSON.parse on the subset: null, true, false, naturals, strings with the *)
(* escapes \" \\ \n, arrays, objects, blanks and newlines between tokens.  *)
(***************************************************************************)
ParseFail == [ok |-> FALSE, val |-> Undef, pos |-> 0]
ParseOk(val, pos) == [ok |-> TRUE, val |-> val, pos |-> pos]

IsDigit(c) == c \in {"0", "1", "2", "3", "4", "5", "6", "7", "8", "9"}
DigitVal(c) == CHOOSE d \in 0..9 : Ch("0123456789", d + 1) = c

RECURSIVE SkipWs(_, _)
SkipWs(s, i) ==
  IF i <= Len(s) /\ Ch(s, i) \in {" ", "\n"} THEN SkipWs(s, i + 1) ELSE i

RECURSIVE ParseDigits(_, _, _)
ParseDigits(s, i, acc) ==
  IF i <= Len(s) /\ IsDigit(Ch(s, i))
  THEN ParseDigits(s, i + 1, acc * 10 + DigitVal(Ch(s, i)))
  ELSE ParseOk(Num(acc), i)

ParseNumber(s, i) ==
  IF Ch(s, i) = "0" THEN ParseOk(Num(0), i + 1) ELSE ParseDigits(s, i, 0)

\* the text between two quotes with its escapes resolved; ok = FALSE when
\* it holds a raw newline or an escape outside \" \\ \n
RECURSIVE UnescapeFrom(_, _, _)
UnescapeFrom(raw, i, acc) ==
  IF i > Len(raw) THEN [ok |-> TRUE, val |-> acc]
  ELSE LET c == Ch(raw, i) IN
    CASE c = "\n" -> [ok |-> FALSE, val |-> ""]
      [] c = "\\" ->
           LET e == IF i + 1 > Len(raw) THEN "" ELSE Ch(raw, i + 1) IN
           CASE e = "\"" -> UnescapeFrom(raw, i + 2, acc \o "\"")
             [] e = "\\" -> UnescapeFrom(raw, i + 2, acc \o "\\")
             [] e = "n" -> UnescapeFrom(raw, i + 2, acc \o "\n")
             [] OTHER -> [ok |-> FALSE, val |-> ""]
      [] OTHER -> UnescapeFrom(raw, i + 1, acc \o c)

Unescape(raw) ==
  IF \A k \in 1..Len(raw) : Ch(raw, k) \notin {"\\", "\n"}
  THEN [ok |-> TRUE, val |-> raw]
  ELSE UnescapeFrom(raw, 1, "")

\* number of consecutive backslashes of s ending at position j, from i on
RECURSIVE BackslashRun(_, _, _)
BackslashRun(s, i, j) ==
  IF j < i \/ Ch(s, j) # "\\" THEN 0 ELSE 1 + BackslashRun(s, i, j - 1)

\* s[i] is the first character after the opening quote
ParseStringBody(s, i) ==
  LET closing == {j \in i..Len(s) : Ch(s, j) = "\"" /\ BackslashRun(s, i, j - 1) % 2 = 0} IN
  IF closing = {} THEN ParseFail
  ELSE LET e == CHOOSE j \in closing : \A k \in closing : j <= k
           body == Unescape(SubSeq(s, i, e - 1)) IN
    IF body.ok THEN ParseOk(Str(body.val), e + 1) ELSE ParseFail

ParseLiteral(s, i, word, val) ==
  IF SubSeq(s, i, Min(Len(s), i + Len(word) - 1)) = word
  THEN ParseOk(val, i + Len(word))
  ELSE ParseFail

RECURSIVE ParseValue(_, _)
RECURSIVE ParseItems(_, _, _)
RECURSIVE ParseMembers(_, _, _)

\* s[i] starts an array element; acc holds the elements read so far
ParseItems(s, i, acc) ==
  LET r == ParseValue(s, i) IN
  IF ~r.ok THEN ParseFail
  ELSE LET j == SkipWs(s, r.pos) IN
    CASE j > Len(s) -> ParseFail
      [] Ch(s, j) = "," -> ParseItems(s, j + 1, Append(acc, r.val))
      [] Ch(s, j) = "]" -> ParseOk(Arr(Append(acc, r.val)), j + 1)
      [] OTHER -> ParseFail

\* s[i] starts (after blanks) an object member; acc holds the members so far
ParseMembers(s, i, acc) ==
  LET j == SkipWs(s, i) IN
  IF j > Len(s) \/ Ch(s, j) # "\"" THEN ParseFail
  ELSE LET k == ParseStringBody(s, j + 1) IN
    IF ~k.ok THEN ParseFail
    ELSE LET c == SkipWs(s, k.pos) IN
      IF c > Len(s) \/ Ch(s, c) # ":" THEN ParseFail
      ELSE LET r == ParseValue(s, c + 1) IN
        IF ~r.ok THEN ParseFail
        ELSE LET e == SkipWs(s, r.pos)
                 next == SetOwn(acc, k.val.v, r.val) IN
          CASE e > Len(s) -> ParseFail
            [] Ch(s, e) = "," -> ParseMembers(s, e + 1, next)
            [] Ch(s, e) = "}" -> ParseOk(Obj(next), e + 1)
            [] OTHER -> ParseFail

ParseValue(s, i) ==
  LET j == SkipWs(s, i) IN
  IF j > Len(s) THEN ParseFail
  ELSE LET c == Ch(s, j) IN
    CASE c = "n" -> ParseLiteral(s, j, "null", Null)
      [] c = "t" -> ParseLiteral(s, j, "true", Bool(TRUE))
      [] c = "f" -> ParseLiteral(s, j, "false", Bool(FALSE))
      [] IsDigit(c) -> ParseNumber(s, j)
      [] c = "\"" -> ParseStringBody(s, j + 1)
      [] c = "[" ->
           LET a == SkipWs(s, j + 1) IN
           IF a <= Len(s) /\ Ch(s, a) = "]" THEN ParseOk(Arr(<<>>), a + 1)
           ELSE ParseItems(s, j + 1, <<>>)
      [] c = "{" ->
           LET a == SkipWs(s, j + 1) IN
           IF a <= Len(s) /\ Ch(s, a) = "}" THEN ParseOk(Obj(<<>>), a + 1)
           ELSE ParseMembers(s, j + 1, <<>>)
      [] OTHER -> ParseFail

\* JSON.parse(text): ok = FALSE stands for the SyntaxError it throws
JSONParse(text) ==
  LET r == ParseValue(text, 1) IN
  IF r.ok /\ SkipWs(text, r.pos) > Len(text) THEN [ok |-> TRUE, val |-> r.val]
  ELSE [ok |-> FALSE, val |-> Undef]

(***************************************************************************)
(* JSON.stringify(value, null, indent)                                     *)
(***************************************************************************)
RECURSIVE Spaces(_)
Spaces(n) == IF n = 0 THEN "" ELSE " " \o Spaces(n - 1)

QuoteChar(c) ==
  CASE c = "\"" -> "\\\""
    [] c = "\\" -> "\\\\"
    [] c = "\n" -> "\\n"
    [] OTHER -> c

RECURSIVE QuoteBody(_)
QuoteBody(s) ==
  IF Len(s) = 0 THEN ""
  ELSE IF Len(s) = 1 THEN QuoteChar(s)
  ELSE LET h == Len(s) \div 2 IN
    QuoteBody(SubSeq(s, 1, h)) \o QuoteBody(SubSeq(s, h + 1, Len(s)))

Quote(s) == "\"" \o QuoteBody(s) \o "\""

RECURSIVE JoinWith(_, _)
JoinWith(parts, sep) ==
  IF Len(parts) = 0 THEN ""
  ELSE IF Len(parts) = 1 THEN parts[1]
  ELSE parts[1] \o sep \o JoinWith(Tail(parts), sep)

\* members whose value is undefined are left out of a serialized object
RECURSIVE DefinedEntries(_)
DefinedEntries(entries) ==
  IF Len(entries) = 0 THEN <<>>
  ELSE IF entries[1][2].t = "undefined" THEN DefinedEntries(Tail(entries))
  ELSE <<entries[1]>> \o DefinedEntries(Tail(entries))

\* text of a value nested at depth cur (in spaces); indent = 0 is compact
RECURSIVE Ser(_, _, _)
Ser(x, indent, cur) ==
  LET inner == cur + indent
      open == IF indent = 0 THEN "" ELSE "\n" \o Spaces(inner)
      sep == IF indent = 0 THEN "," ELSE ",\n" \o Spaces(inner)
      close == IF indent = 0 THEN "" ELSE "\n" \o Spaces(cur)
      colon == IF indent = 0 THEN ":" ELSE ": " IN
  CASE x.t \in {"undefined", "null"} -> "null"
    [] x.t = "boolean" -> IF x.v THEN "true" ELSE "false"
    [] x.t = "number" -> ToString(x.v)
    [] x.t = "NaN" -> "null"
    [] x.t = "string" -> Quote(x.v)
    [] x.t = "array" ->
         IF Len(x.v) = 0 THEN "[]"
         ELSE "[" \o open
              \o JoinWith([i \in 1..Len(x.v) |-> Ser(x.v[i], indent, inner)], sep)
              \o close \o "]"
    [] x.t = "object" ->
         LET es == DefinedEntries(x.v) IN
         IF Len(es) = 0 THEN "{}"
         ELSE "{" \o open
              \o JoinWith([i \in 1..Len(es) |->
                             Quote(es[i][1]) \o colon \o Ser(es[i][2], indent, inner)], sep)
              \o close \o "}"

\* a JavaScript value: a string, or undefined when the argument is undefined
JSONStringify(x, indent) == IF x.t = "undefined" THEN Undef ELSE Str(Ser(x, indent, 0))

(***************************************************************************)
(* Thrown values: an Error instance, or any other JavaScript value         *)
(***************************************************************************)
Error(message) == [t |-> "error", v |-> message]

\* error instanceof Error
IsErrorInstance(e) == e.t = "error"

Resolved(val) == [ok |-> TRUE, val |-> val]
Rejected(val) == [ok |-> FALSE, val |-> val]

(***************************************************************************)
(* DatabasusClient                                                         *)
(***************************************************************************)
\* faulty variant: the base URL is stored as it is given
KeepTrailingSlash(s) == s

\* config.baseUrl.replace(/\/$/, '')
StripTrailingSlash(s) ==
  IF Len(s) > 0 /\ Ch(s, Len(s)) = "/" THEN SubSeq(s, 1, Len(s) - 1) ELSE s

Constructor(config) ==
  [baseUrl |-> StripTrailingSlash(config.baseUrl),
   apiKey |-> config.apiKey,
   bearerToken |-> config.bearerToken]

\* faulty variant: the API key takes precedence over the bearer token
getHeadersKeyFirst(client) ==
  LET base == <<<<"Content-Type", Str("application/json")>>>> IN
  IF Truthy(client.apiKey)
  THEN Obj(Append(base, <<"X-API-Key", client.apiKey>>))
  ELSE IF Truthy(client.bearerToken)
  THEN Obj(Append(base, <<"Authorization", Str("Bearer " \o client.bearerToken.v)>>))
  ELSE Obj(base)

\* faulty variant: the key header is set without testing the key
getHeadersAlwaysKey(client) ==
  LET base == <<<<"Content-Type", Str("application/json")>>>> IN
  IF Truthy(client.bearerToken)
  THEN Obj(Append(base, <<"Authorization", Str("Bearer " \o client.bearerToken.v)>>))
  ELSE Obj(Append(base, <<"X-API-Key", client.apiKey>>))

getHeaders(client) ==
  LET base == <<<<"Content-Type", Str("application/json")>>>> IN
  IF Truthy(client.bearerToken)
  THEN Obj(Append(base, <<"Authorization", Str("Bearer " \o client.bearerToken.v)>>))
  ELSE IF Truthy(client.apiKey)
  THEN Obj(Append(base, <<"X-API-Key", client.apiKey>>))
  ELSE Obj(base)

\* One client method = one call of request(method, path, body); void marks
\* the methods that await the request and return nothing.
Call(method, path, body) == [method |-> method, path |-> path, body |-> body, void |-> FALSE]
VoidCall(method, path) == [method |-> method, path |-> path, body |-> Undef, void |-> TRUE]

getDatabases == Call("GET", "/api/databases", Undef)
getDatabase(id) == Call("GET", "/api/databases/" \o id, Undef)
createDatabase(data) == Call("POST", "/api/databases", data)
\* faulty variant: the id is sent in the body as well
updateDatabaseWithId(id, data) ==
  Call("PUT", "/api/databases/" \o id, Obj(<<<<"id", Str(id)>>>> \o data.v))
updateDatabase(id, data) == Call("PUT", "/api/databases/" \o id, data)
deleteDatabase(id) == VoidCall("DELETE", "/api/databases/" \o id)
triggerBackup(id) == Call("POST", "/api/databases/" \o id \o "/backup", Undef)
\* faulty variant: the filter is not put into the query string
getBackupsUnfiltered(databaseId) == Call("GET", "/api/backups", Undef)

getBackups(databaseId) ==
  Call("GET", IF Truthy(databaseId) THEN "/api/backups?databaseId=" \o databaseId.v
              ELSE "/api/backups", Undef)
getBackup(id) == Call("GET", "/api/backups/" \o id, Undef)
downloadBackup(id) == Call("GET", "/api/backups/" \o id \o "/download", Undef)
deleteBackup(id) == VoidCall("DELETE", "/api/backups/" \o id)
getStorages == Call("GET", "/api/storages", Undef)
getStorage(id) == Call("GET", "/api/storages/" \o id, Undef)
createStorage(data) == Call("POST", "/api/storages", data)
updateStorage(id, data) == Call("PUT", "/api/storages/" \o id, data)
deleteStorage(id) == VoidCall("DELETE", "/api/storages/" \o id)
testStorage(id) == Call("POST", "/api/storages/" \o id \o "/test", Undef)
getNotifiers == Call("GET", "/api/notifiers", Undef)
getNotifier(id) == Call("GET", "/api/notifiers/" \o id, Undef)
createNotifier(data) == Call("POST", "/api/notifiers", data)
\* faulty variant: the update is sent as a POST to the collection
updateNotifierAsCreate(id, data) == Call("POST", "/api/notifiers", data)
updateNotifier(id, data) == Call("PUT", "/api/notifiers/" \o id, data)
deleteNotifier(id) == VoidCall("DELETE", "/api/notifiers/" \o id)
testNotifier(id) == Call("POST", "/api/notifiers/" \o id \o "/test", Undef)
getWorkspaces == Call("GET", "/api/workspaces", Undef)
getWorkspace(id) == Call("GET", "/api/workspaces/" \o id, Undef)
getHealthChecks(databaseId) == Call("GET", "/api/databases/" \o databaseId \o "/health-checks", Undef)
getLatestHealthCheck(databaseId) ==
  Call("GET", "/api/databases/" \o databaseId \o "/health-checks/latest", Undef)
getStats == Call("GET", "/api/stats", Undef)

\* faulty variant: only a POST carries its payload
RequestOptionsPostOnly(client, call) ==
  [method |-> call.method,
   url |-> client.baseUrl \o call.path,
   headers |-> getHeaders(client),
   body |-> IF Truthy(call.body) /\ call.method = "POST"
            THEN JSONStringify(call.body, 0) ELSE Undef]

\* request(): url, headers and options handed to fetch
RequestOptions(client, call) ==
  [method |-> call.method,
   url |-> client.baseUrl \o call.path,
   headers |-> getHeaders(client),
   body |-> IF Truthy(call.body) THEN JSONStringify(call.body, 0) ELSE Undef]

\* faulty variant: the caught value is used as if it always were an Error
RequestFetchRejectedRaw(error) ==
  Rejected(Error("Network error: " \o (IF error.t \in {"error", "string"} THEN error.v ELSE "")))

\* request(): fetch rejected with error
RequestFetchRejected(error) ==
  Rejected(Error("Network error: " \o
                 (IF IsErrorInstance(error) THEN error.v ELSE "Unknown error")))

\* response.ok
ResponseOk(status) == status >= 200 /\ status <= 299

SliceLen == 100

\* faulty variant: the message field is preferred over the error field
extractErrorMessageSwapped(data, status) ==
  IF IsObjectLike(data) /\ GetOwn(data, "message").t = "string" THEN GetOwn(data, "message").v
  ELSE IF IsObjectLike(data) /\ GetOwn(data, "error").t = "string" THEN GetOwn(data, "error").v
  ELSE "HTTP error " \o ToString(status)

extractErrorMessage(data, status) ==
  IF IsObjectLike(data) /\ GetOwn(data, "error").t = "string" THEN GetOwn(data, "error").v
  ELSE IF IsObjectLike(data) /\ GetOwn(data, "message").t = "string" THEN GetOwn(data, "message").v
  ELSE "HTTP error " \o ToString(status)

\* faulty variant: the raw text is not cut to SliceLen characters
RequestAfterTextUncut(status, responseText) ==
  LET parsed == IF responseText # "" THEN JSONParse(responseText)
                ELSE [ok |-> TRUE, val |-> Undef] IN
  IF ~parsed.ok
  THEN Rejected(Error("Invalid JSON response: " \o responseText))
  ELSE IF ~ResponseOk(status)
  THEN Rejected(Error(extractErrorMessage(parsed.val, status)))
  ELSE Resolved(parsed.val)

\* faulty variant: an empty text is handed to JSON.parse too
RequestAfterTextParsesEmpty(status, responseText) ==
  LET parsed == JSONParse(responseText) IN
  IF ~parsed.ok
  THEN Rejected(Error("Invalid JSON response: " \o Substring0(responseText, SliceLen)))
  ELSE IF ~ResponseOk(status)
  THEN Rejected(Error(extractErrorMessage(parsed.val, status)))
  ELSE Resolved(parsed.val)

\* faulty variant: the status is looked at before the text is parsed
RequestAfterTextStatusFirst(status, responseText) ==
  LET parsed == IF responseText # "" THEN JSONParse(responseText)
                ELSE [ok |-> TRUE, val |-> Undef] IN
  IF ~ResponseOk(status)
  THEN Rejected(Error(extractErrorMessage(parsed.val, status)))
  ELSE IF ~parsed.ok
  THEN Rejected(Error("Invalid JSON response: " \o Substring0(responseText, SliceLen)))
  ELSE Resolved(parsed.val)

\* request(): from the response text to the returned or thrown value
RequestAfterText(status, responseText) ==
  LET parsed == IF responseText # "" THEN JSONParse(responseText)
                ELSE [ok |-> TRUE, val |-> Undef] IN
  IF ~parsed.ok
  THEN Rejected(Error("Invalid JSON response: " \o Substring0(responseText, SliceLen)))
  ELSE IF ~ResponseOk(status)
  THEN Rejected(Error(extractErrorMessage(parsed.val, status)))
  ELSE Resolved(parsed.val)

\* faulty variant: a void method resolves whatever request() did
MethodOutcomeSwallow(call, outcome) ==
  IF call.void THEN Resolved(Undef) ELSE outcome

\* the client method around request(): void methods drop the data
MethodOutcome(call, outcome) ==
  IF outcome.ok /\ call.void THEN Resolved(Undef) ELSE outcome

(***************************************************************************)
(* Property access and iteration as the handlers use them.  The TypeError  *)
(* messages are those of V8 (Node.js).                                     *)
(***************************************************************************)
IsNullish(x) == x.t \in {"undefined", "null"}

\* x.k on a non-nullish value (own data properties only)
GetProp(x, k) == GetOwn(x, k)

\* x.k throws when x is undefined or null
ReadError(x, k) ==
  Error("Cannot read properties of " \o x.t \o " (reading '" \o k \o "')")

\* Object.entries(x) for a non-nullish x
RECURSIVE StringEntries(_, _)
StringEntries(s, i) ==
  IF i > Len(s) THEN <<>>
  ELSE <<<<ToString(i - 1), Str(Ch(s, i))>>>> \o StringEntries(s, i + 1)

ObjectEntries(x) ==
  CASE x.t = "object" -> x.v
    [] x.t = "array" -> [i \in 1..Len(x.v) |-> <<ToString(i - 1), x.v[i]>>]
    [] x.t = "string" -> StringEntries(x.v, 1)
    [] OTHER -> <<>>

EntriesError == Error("Cannot convert undefined or null to object")

(***************************************************************************)
(* Redactors                                                               *)
(***************************************************************************)
SENSITIVE_KEYS ==
  <<"password", "secret", "key", "token", "credential", "apiKey", "api_key",
    "accessKey", "access_key", "secretKey", "secret_key">>

sensitiveKeys ==
  <<"url", "webhook_url", "webhookUrl", "token", "api_key", "apiKey", "password",
    "secret", "bot_token", "botToken", "access_token", "accessToken">>

\* keys.some(k => key.toLowerCase().includes(k))
IsSensitive(keys, key) ==
  \E i \in 1..Len(keys) : Includes(ToLowerCase(key), keys[i])

StorageMarker == "***"
NotifierMarker == "***REDACTED***"

\* storages.ts maskSensitiveConfig, for a non-nullish config
RECURSIVE maskSensitiveConfig_storages(_)
maskSensitiveConfig_storages(config) ==
  LET es == ObjectEntries(config) IN
  Obj([i \in 1..Len(es) |->
        IF IsSensitive(SENSITIVE_KEYS, es[i][1]) /\ es[i][2].t = "string"
        THEN <<es[i][1], Str(StorageMarker)>>
        ELSE IF IsObjectLike(es[i][2])
        THEN <<es[i][1], maskSensitiveConfig_storages(es[i][2])>>
        ELSE es[i]])

\* faulty variant: the marker is put in front of the value
maskSensitiveConfig_notifiersPrefix(config) ==
  LET es == ObjectEntries(config) IN
  Obj([i \in 1..Len(es) |->
        IF IsSensitive(sensitiveKeys, es[i][1]) /\ es[i][2].t = "string"
        THEN <<es[i][1], Str(NotifierMarker \o es[i][2].v)>>
        ELSE es[i]])

\* notifiers.ts maskSensitiveConfig, for a non-nullish config
maskSensitiveConfig_notifiers(config) ==
  LET es == ObjectEntries(config) IN
  Obj([i \in 1..Len(es) |->
        IF IsSensitive(sensitiveKeys, es[i][1]) /\ es[i][2].t = "string"
        THEN <<es[i][1], Str(NotifierMarker)>>
        ELSE es[i]])

\* an object literal {k1: x.k1, k2: x.k2, ...}
Pick(x, keys) == Obj([i \in 1..Len(keys) |-> <<keys[i], GetProp(x, keys[i])>>])

maskStorage(storage) ==
  Obj(<<<<"id", GetProp(storage, "id")>>,
        <<"name", GetProp(storage, "name")>>,
        <<"type", GetProp(storage, "type")>>,
        <<"enabled", GetProp(storage, "enabled")>>,
        <<"config", maskSensitiveConfig_storages(GetProp(storage, "config"))>>,
        <<"createdAt", GetProp(storage, "createdAt")>>,
        <<"updatedAt", GetProp(storage, "updatedAt")>>>>)

ListFields == <<"id", "name", "type", "enabled">>

\* {...notifier, config: maskedConfig}
SpreadWithConfig(notifier, maskedConfig) ==
  Obj(SetOwn(ObjectEntries(notifier), "config", maskedConfig))

(***************************************************************************)
(* Tool handlers.  Each handler is  try { data = await client.m(...);      *)
(* return envelope(shape(data)) } catch (error) { return failure(error) }. *)
(***************************************************************************)
DatabaseTools ==
  {"databasus_list_databases", "databasus_get_database", "databasus_create_database",
   "databasus_update_database", "databasus_delete_database", "databasus_trigger_backup",
   "databasus_toggle_database"}
BackupTools ==
  {"databasus_list_backups", "databasus_get_backup", "databasus_download_backup",
   "databasus_delete_backup", "databasus_get_backup_stats"}
StorageTools ==
  {"databasus_list_storages", "databasus_get_storage", "databasus_create_storage",
   "databasus_update_storage", "databasus_delete_storage", "databasus_test_storage"}
NotifierTools ==
  {"databasus_list_notifiers", "databasus_get_notifier", "databasus_create_notifier",
   "databasus_update_notifier", "databasus_delete_notifier", "databasus_test_notifier"}
WorkspaceTools ==
  {"databasus_list_workspaces", "databasus_get_workspace", "databasus_get_health_checks",
   "databasus_get_latest_health", "databasus_get_stats"}
Tools == DatabaseTools \cup BackupTools \cup StorageTools \cup NotifierTools \cup WorkspaceTools

DeleteTools ==
  {"databasus_delete_database", "databasus_delete_backup", "databasus_delete_storage",
   "databasus_delete_notifier"}

CreateDatabaseFields ==
  <<"name", "type", "host", "port", "databaseName", "username", "password", "sslMode",
    "scheduleType", "scheduleValue", "retentionDays", "storageId", "notifierIds",
    "healthCheckEnabled", "healthCheckIntervalMinutes">>
UpdateDatabaseFields ==
  <<"name", "host", "port", "databaseName", "username", "password", "sslMode",
    "scheduleType", "scheduleValue", "retentionDays", "enabled", "storageId", "notifierIds",
    "healthCheckEnabled", "healthCheckIntervalMinutes">>

\* the client method a handler awaits, with the arguments it builds
HandlerCall(tool, params) ==
  LET id == GetOwn(params, "id").v
      databaseId == GetOwn(params, "databaseId") IN
  CASE tool = "databasus_list_databases" -> getDatabases
    [] tool = "databasus_get_database" -> getDatabase(id)
    [] tool = "databasus_create_database" -> createDatabase(Pick(params, CreateDatabaseFields))
    [] tool = "databasus_update_database" -> updateDatabase(id, Pick(params, UpdateDatabaseFields))
    [] tool = "databasus_delete_database" -> deleteDatabase(id)
    [] tool = "databasus_trigger_backup" -> triggerBackup(id)
    [] tool = "databasus_toggle_database" -> updateDatabase(id, Pick(params, <<"enabled">>))
    [] tool = "databasus_list_backups" -> getBackups(databaseId)
    [] tool = "databasus_get_backup" -> getBackup(id)
    [] tool = "databasus_download_backup" -> downloadBackup(id)
    [] tool = "databasus_delete_backup" -> deleteBackup(id)
    [] tool = "databasus_get_backup_stats" -> getBackups(databaseId)
    [] tool = "databasus_list_storages" -> getStorages
    [] tool = "databasus_get_storage" -> getStorage(id)
    [] tool = "databasus_create_storage" -> createStorage(Pick(params, <<"name", "type", "config">>))
    [] tool = "databasus_update_storage" ->
         updateStorage(id, Pick(params, <<"name", "enabled", "config">>))
    [] tool = "databasus_delete_storage" -> deleteStorage(id)
    [] tool = "databasus_test_storage" -> testStorage(id)
    [] tool = "databasus_list_notifiers" -> getNotifiers
    [] tool = "databasus_get_notifier" -> getNotifier(id)
    [] tool = "databasus_create_notifier" -> createNotifier(Pick(params, <<"name", "type", "config">>))
    [] tool = "databasus_update_notifier" ->
         updateNotifier(id, Pick(params, <<"name", "enabled", "config">>))
    [] tool = "databasus_delete_notifier" -> deleteNotifier(id)
    [] tool = "databasus_test_notifier" -> testNotifier(id)
    [] tool = "databasus_list_workspaces" -> getWorkspaces
    [] tool = "databasus_get_workspace" -> getWorkspace(id)
    [] tool = "databasus_get_health_checks" -> getHealthChecks(databaseId.v)
    [] tool = "databasus_get_latest_health" -> getLatestHealthCheck(databaseId.v)
    [] tool = "databasus_get_stats" -> getStats

\* x.method(...) where x is not an array
ArrayMethodError(x, name, method) ==
  IF IsNullish(x) THEN ReadError(x, method)
  ELSE Error(name \o "." \o method \o " is not a function")

FirstNullish(items) == CHOOSE i \in 1..Len(items) : IsNullish(items[i])

\* JSON.stringify(data.map(F), null, 2); firstKey is the first property F reads
MapShape(data, name, firstKey, F(_)) ==
  IF data.t # "array" THEN Rejected(ArrayMethodError(data, name, "map"))
  ELSE IF \E i \in 1..Len(data.v) : IsNullish(data.v[i])
  THEN Rejected(ReadError(data.v[FirstNullish(data.v)], firstKey))
  ELSE Resolved(JSONStringify(Arr([i \in 1..Len(data.v) |-> F(data.v[i])]), 2))

\* JSON.stringify({k: data.k, ...}, null, 2)
PickShape(data, keys) ==
  IF IsNullish(data) THEN Rejected(ReadError(data, keys[1]))
  ELSE Resolved(JSONStringify(Pick(data, keys), 2))

\* x ?? null
OrNull(x) == IF IsNullish(x) THEN Null ELSE x

\* x || null
TruthyOrNull(x) == IF Truthy(x) THEN x ELSE Null

DatabaseListItem(db) ==
  Obj(<<<<"id", GetProp(db, "id")>>,
        <<"name", GetProp(db, "name")>>,
        <<"type", GetProp(db, "type")>>,
        <<"host", GetProp(db, "host")>>,
        <<"status", Str(IF Truthy(GetProp(db, "enabled")) THEN "enabled" ELSE "disabled")>>,
        <<"lastBackup", OrNull(GetProp(db, "lastBackupAt"))>>,
        <<"lastBackupStatus", OrNull(GetProp(db, "lastBackupStatus"))>>>>)

BackupListItem(backup) ==
  Pick(backup, <<"id", "databaseId", "status", "size", "startedAt", "completedAt">>)

EntityListItem(e) == Pick(e, ListFields)

WorkspaceListItem(w) ==
  Pick(w, <<"id", "name", "description", "memberCount", "databaseCount">>)

HealthCheckFields == <<"id", "status", "responseTimeMs", "checkedAt", "errorMessage">>
HealthCheckItem(hc) == Pick(hc, HealthCheckFields)

StatsFields ==
  <<"totalDatabases", "healthyDatabases", "unhealthyDatabases", "totalBackups",
    "totalSize", "lastBackupAt">>

DeletedMessage(kind, id) ==
  Resolved(JSONStringify(
    Obj(<<<<"success", Bool(TRUE)>>,
          <<"message", Str(kind \o " " \o id \o " deleted successfully")>>>>), 0))

\* array.slice(0, limit) for an integer limit; a negative limit counts from the end
Slice0(items, limit) ==
  IF limit >= 0 THEN SubSeq(items, 1, Min(limit, Len(items)))
  ELSE SubSeq(items, 1, Len(items) + limit)

(***************************************************************************)
(* databasus_get_backup_stats                                              *)
(***************************************************************************)
NaN == [t |-> "NaN"]

\* sum + b.size for numbers; an absent size turns the sum into NaN
AddSize(sum, size) ==
  IF sum.t = "number" /\ size.t = "number" THEN Num(sum.v + size.v)
  ELSE IF sum.t = "number" /\ size.t = "null" THEN sum
  ELSE NaN

RECURSIVE SumSizes(_, _)
SumSizes(items, sum) ==
  IF Len(items) = 0 THEN sum
  ELSE SumSizes(Tail(items), AddSize(sum, GetProp(items[1], "size")))

AllDigits(s) == \A i \in 1..Len(s) : IsDigit(Ch(s, i))

RECURSIVE DigitsVal(_, _)
DigitsVal(s, acc) ==
  IF s = "" THEN acc ELSE DigitsVal(SubSeq(s, 2, Len(s)), acc * 10 + DigitVal(Ch(s, 1)))

\* new Date(x) for the ISO forms YYYY-MM-DD and YYYY-MM-DDTHH:MM:SS.000Z,
\* as a number that orders dates the way getTime() does; -1 is an Invalid Date
DateValue(x) ==
  IF x.t # "string" THEN -1
  ELSE LET s == x.v
           dateOk == Len(s) >= 10 /\ AllDigits(SubSeq(s, 1, 4)) /\ Ch(s, 5) = "-"
                     /\ AllDigits(SubSeq(s, 6, 7)) /\ Ch(s, 8) = "-"
                     /\ AllDigits(SubSeq(s, 9, 10))
           timeOk == Len(s) = 24 /\ Ch(s, 11) = "T" /\ AllDigits(SubSeq(s, 12, 13))
                     /\ Ch(s, 14) = ":" /\ AllDigits(SubSeq(s, 15, 16)) /\ Ch(s, 17) = ":"
                     /\ AllDigits(SubSeq(s, 18, 19)) /\ SubSeq(s, 20, 24) = ".000Z"
           day == (DigitsVal(SubSeq(s, 1, 4), 0) - 2000) * 372
                  + (DigitsVal(SubSeq(s, 6, 7), 0) - 1) * 31 + DigitsVal(SubSeq(s, 9, 10), 0)
           secs == DigitsVal(SubSeq(s, 12, 13), 0) * 3600
                   + DigitsVal(SubSeq(s, 15, 16), 0) * 60 + DigitsVal(SubSeq(s, 18, 19), 0) IN
    IF dateOk /\ Len(s) = 10 THEN day * 86400
    ELSE IF dateOk /\ timeOk THEN day * 86400 + secs
    ELSE -1

\* faulty variant: the comparison is turned round
DateBefore(a, b) == DateValue(a) # -1 /\ DateValue(b) # -1 /\ DateValue(a) < DateValue(b)

\* new Date(a) > new Date(b); false when either is an Invalid Date
DateAfter(a, b) == DateValue(a) # -1 /\ DateValue(b) # -1 /\ DateValue(a) > DateValue(b)

\* completedBackups.reduce((latest, b) => later(b, latest) ? b : latest)
RECURSIVE LatestBackup(_, _)
LatestBackup(items, latest) ==
  IF Len(items) = 0 THEN latest
  ELSE LatestBackup(Tail(items),
         IF DateAfter(GetProp(items[1], "completedAt"), GetProp(latest, "completedAt"))
         THEN items[1] ELSE latest)

RECURSIVE Pow1024(_)
Pow1024(i) == IF i = 0 THEN 1 ELSE 1024 * Pow1024(i - 1)

SizeUnits == <<"B", "KB", "MB", "GB", "TB">>

\* parseFloat((h / 100).toFixed(2)) printed: trailing zeros dropped
Hundredths(h) ==
  LET whole == h \div 100
      frac == h % 100 IN
  IF frac = 0 THEN ToString(whole)
  ELSE IF frac % 10 = 0 THEN ToString(whole) \o "." \o ToString(frac \div 10)
  ELSE ToString(whole) \o "." \o (IF frac < 10 THEN "0" ELSE "") \o ToString(frac)

formatBytes(bytes) ==
  IF bytes.t # "number" THEN "NaN undefined"
  ELSE IF bytes.v = 0 THEN "0 B"
  ELSE LET i == CHOOSE k \in 0..2 : Pow1024(k) <= bytes.v /\ bytes.v < Pow1024(k + 1)
           h == (bytes.v * 200 + Pow1024(i)) \div (2 * Pow1024(i)) IN
    Hundredths(h) \o " " \o SizeUnits[i + 1]

\* faulty variant: the status is not looked at
WithStatusAny(items, status) == items

WithStatus(items, status) ==
  SelectSeq(items, LAMBDA b : GetProp(b, "status") = Str(status))

BackupStats(backups, databaseId) ==
  LET completedBackups == WithStatus(backups, "completed")
      totalSize == SumSizes(completedBackups, Num(0))
      lastBackup == IF Len(completedBackups) > 0
                    THEN LatestBackup(Tail(completedBackups), completedBackups[1])
                    ELSE Null IN
  Obj(<<<<"totalBackups", Num(Len(backups))>>,
        <<"completedBackups", Num(Len(completedBackups))>>,
        <<"failedBackups", Num(Len(WithStatus(backups, "failed")))>>,
        <<"runningBackups", Num(Len(WithStatus(backups, "running")))>>,
        <<"pendingBackups", Num(Len(WithStatus(backups, "pending")))>>,
        <<"totalSize", totalSize>>,
        <<"totalSizeFormatted", Str(formatBytes(totalSize))>>,
        <<"lastBackupAt", IF lastBackup.t = "null" THEN Null
                          ELSE TruthyOrNull(GetProp(lastBackup, "completedAt"))>>,
        <<"lastBackupId", IF lastBackup.t = "null" THEN Null
                          ELSE TruthyOrNull(GetProp(lastBackup, "id"))>>,
        <<"databaseId", TruthyOrNull(databaseId)>>>>)

BackupStatsShape(data, databaseId) ==
  IF data.t # "array" THEN Rejected(ArrayMethodError(data, "backups", "filter"))
  ELSE IF \E i \in 1..Len(data.v) : IsNullish(data.v[i])
  THEN Rejected(ReadError(data.v[FirstNullish(data.v)], "status"))
  ELSE Resolved(JSONStringify(BackupStats(data.v, databaseId), 2))

(***************************************************************************)
(* The try block after the awaited client call resolved with data: the     *)
(* text of the envelope, or the value thrown while shaping it              *)
(***************************************************************************)
StorageShape(storage) ==
  IF IsNullish(storage) THEN Rejected(ReadError(storage, "id"))
  ELSE IF IsNullish(GetProp(storage, "config")) THEN Rejected(EntriesError)
  ELSE Resolved(JSONStringify(maskStorage(storage), 2))

NotifierShape(notifier) ==
  IF IsNullish(notifier) THEN Rejected(ReadError(notifier, "config"))
  ELSE IF IsNullish(GetProp(notifier, "config")) THEN Rejected(EntriesError)
  ELSE Resolved(JSONStringify(
         SpreadWithConfig(notifier, maskSensitiveConfig_notifiers(GetProp(notifier, "config"))), 2))

HealthChecksShape(data, limit) ==
  IF IsNullish(data) THEN Rejected(ReadError(data, "slice"))
  ELSE IF data.t = "string" THEN Rejected(Error("healthChecks.slice(...).map is not a function"))
  ELSE IF data.t # "array" THEN Rejected(Error("healthChecks.slice is not a function"))
  ELSE MapShape(Arr(Slice0(data.v, limit.v)), "healthChecks", "id", HealthCheckItem)

HandlerSuccess(tool, params, data) ==
  CASE tool = "databasus_list_databases" -> MapShape(data, "databases", "id", DatabaseListItem)
    [] tool = "databasus_list_backups" -> MapShape(data, "backups", "id", BackupListItem)
    [] tool = "databasus_list_storages" -> MapShape(data, "storages", "id", EntityListItem)
    [] tool = "databasus_list_notifiers" -> MapShape(data, "notifiers", "id", EntityListItem)
    [] tool = "databasus_list_workspaces" -> MapShape(data, "workspaces", "id", WorkspaceListItem)
    [] tool = "databasus_delete_database" -> DeletedMessage("Database", GetOwn(params, "id").v)
    [] tool = "databasus_delete_backup" -> DeletedMessage("Backup", GetOwn(params, "id").v)
    [] tool = "databasus_delete_storage" -> DeletedMessage("Storage", GetOwn(params, "id").v)
    [] tool = "databasus_delete_notifier" -> DeletedMessage("Notifier", GetOwn(params, "id").v)
    [] tool = "databasus_get_backup_stats" -> BackupStatsShape(data, GetOwn(params, "databaseId"))
    [] tool \in {"databasus_get_storage", "databasus_create_storage", "databasus_update_storage"} ->
         StorageShape(data)
    [] tool \in {"databasus_get_notifier", "databasus_create_notifier",
                 "databasus_update_notifier"} -> NotifierShape(data)
    [] tool = "databasus_get_health_checks" -> HealthChecksShape(data, GetOwn(params, "limit"))
    [] tool = "databasus_get_latest_health" -> PickShape(data, HealthCheckFields)
    [] tool = "databasus_get_stats" -> PickShape(data, StatsFields)
    [] OTHER -> Resolved(JSONStringify(data, 2))

\* the message used when the caught value is not an Error
FallbackMessage(tool) ==
  CASE tool = "databasus_list_backups" -> "Failed to list backups"
    [] tool = "databasus_get_backup" -> "Failed to get backup"
    [] tool = "databasus_download_backup" -> "Failed to get download info for backup"
    [] tool = "databasus_delete_backup" -> "Failed to delete backup"
    [] tool = "databasus_get_backup_stats" -> "Failed to get backup statistics"
    [] OTHER -> "Unknown error"

\* the catch blocks that set isError: true
FlagsError(tool) == tool \in NotifierTools \cup WorkspaceTools

Envelope(text, flag) ==
  LET content == <<"content", Arr(<<Obj(<<<<"type", Str("text")>>, <<"text", text>>>>)>>)>> IN
  IF flag THEN Obj(<<content, <<"isError", Bool(TRUE)>>>>) ELSE Obj(<<content>>)

\* the catch block
HandlerFailure(tool, error) ==
  LET message == Str(IF IsErrorInstance(error) THEN error.v ELSE FallbackMessage(tool))
      body == IF tool \in {"databasus_test_storage", "databasus_test_notifier"}
              THEN Obj(<<<<"success", Bool(FALSE)>>, <<"error", message>>>>)
              ELSE Obj(<<<<"error", message>>>>) IN
  Envelope(JSONStringify(body, 0), FlagsError(tool))

\* faulty variant: the success branch runs whatever the client method did
HandlerSettleOptimistic(tool, params, outcome) ==
  LET shaped == HandlerSuccess(tool, params, IF outcome.ok THEN outcome.val ELSE Undef) IN
  IF shaped.ok THEN Resolved(Envelope(shaped.val, FALSE))
  ELSE Resolved(HandlerFailure(tool, shaped.val))

\* what the handler's promise settles to, given the client method's outcome
HandlerSettle(tool, params, outcome) ==
  IF ~outcome.ok THEN Resolved(HandlerFailure(tool, outcome.val))
  ELSE LET shaped == HandlerSuccess(tool, params, outcome.val) IN
    IF shaped.ok THEN Resolved(Envelope(shaped.val, FALSE))
    ELSE Resolved(HandlerFailure(tool, shaped.val))

(***************************************************************************)
(* Inputs                                                                  *)
(***************************************************************************)
MaxInvocations == 2

\* the compact JSON text of a value, as a remote would send it
Body(x, indent) == Ser(x, indent, 0)

RECURSIVE Repeat(_, _)
Repeat(s, n) == IF n = 0 THEN "" ELSE s \o Repeat(s, n - 1)

\* 200 characters that are not JSON
LongText == Repeat("abcdefghij", 10) \o Repeat("ABCDEFGHIJ", 10)

O1(k1, v1) == Obj(<<<<k1, v1>>>>)
O2(k1, v1, k2, v2) == Obj(<<<<k1, v1>>, <<k2, v2>>>>)
O3(k1, v1, k2, v2, k3, v3) == Obj(<<<<k1, v1>>, <<k2, v2>>, <<k3, v3>>>>)

\* DatabasusConfig values handed to the constructor (index.ts reads them
\* from the environment, where a variable may be unset or empty)
Secret == Str("s3cr3t")
ConfigInputs ==
  {[baseUrl |-> "http://h/", apiKey |-> c[1], bearerToken |-> c[2]] :
     c \in {<<Undef, Undef>>, <<Secret, Undef>>, <<Undef, Secret>>, <<Secret, Secret>>,
            <<Secret, Str("")>>, <<Str(""), Undef>>}}
  \cup {[baseUrl |-> u, apiKey |-> Secret, bearerToken |-> Undef] :
          u \in {"http://h", "http://h//"}}

\* freeform config maps of storages and notifiers
ConfigMaps ==
  {O2("bucket", Str("b1"), "region", Str("eu")),
   O2("password", Str("pw1"), "port", Num(587)),
   O2("my_access_key", Str("ak1"), "secretToken", Str("st1")),
   O2("apiKey", Str("ak2"), "webhookUrl", Str("http://w")),
   O2("url", Str("http://u"), "credential", Str("cr1")),
   O2("connection",
      O3("host", Str("s3"), "secret", Str("x"), "nested", O1("apiKey", Str("y"))),
      "regular", Str("visible")),
   O3("token", Num(5), "key", Bool(TRUE), "secret", Null),
   O2("auth", O1("token", Str("tk1")), "channel", Str("#a")),
   O2("hosts", Arr(<<Str("a"), Str("b")>>), "port", Num(21))}

Entity(id, config) ==
  Obj(<<<<"id", Str(id)>>, <<"name", Str("n-" \o id)>>, <<"type", Str("s3")>>,
        <<"enabled", Bool(TRUE)>>, <<"config", config>>,
        <<"createdAt", Str("2024-01-01")>>, <<"updatedAt", Str("2024-01-02")>>>>)

EntityTexts == {Body(Entity("e1", c), 0) : c \in ConfigMaps} \cup {Body(O1("id", Str("e1")), 0)}

EntityListTexts ==
  {Body(Arr(<<Entity("e1", O1("password", Str("pw1"))),
             Entity("e2", O1("token", Str("tk2")))>>), 0),
   "[null]"}

Backup(id, status, size, completedAt) ==
  Obj(<<<<"id", Str(id)>>, <<"databaseId", Str("db-1")>>, <<"status", Str(status)>>,
        <<"size", Num(size)>>, <<"startedAt", Str("2024-01-01T00:00:00.000Z")>>,
        <<"completedAt", completedAt>>>>)

BackupLists ==
  {<<Backup("b1", "completed", 1024, Str("2024-01-01T10:00:00.000Z")),
     Backup("b2", "failed", 512, Undef),
     Backup("b3", "completed", 512, Str("2024-01-03T10:00:00.000Z"))>>,
   <<Backup("b3", "completed", 100, Str("2024-01-03T10:00:00.000Z")),
     Backup("b1", "completed", 200, Str("2024-01-01T10:00:00.000Z")),
     Backup("b4", "running", 7, Undef),
     Backup("b5", "pending", 9, Undef)>>,
   <<Backup("b2", "failed", 512, Undef)>>}

HealthCheck(id, status) ==
  Obj(<<<<"id", Str(id)>>, <<"databaseId", Str("db-1")>>, <<"status", Str(status)>>,
        <<"responseTimeMs", Num(12)>>, <<"checkedAt", Str("2024-01-01T00:00:00.000Z")>>>>)

DatabaseValue ==
  Obj(<<<<"id", Str("db-1")>>, <<"name", Str("main")>>, <<"type", Str("postgres")>>,
        <<"host", Str("localhost")>>, <<"port", Num(5432)>>, <<"enabled", Bool(FALSE)>>,
        <<"lastBackupAt", Str("2024-01-03")>>>>)

WorkspaceValue ==
  Obj(<<<<"id", Str("w1")>>, <<"name", Str("team")>>, <<"memberCount", Num(3)>>,
        <<"databaseCount", Num(2)>>>>)

StatsValue ==
  Obj(<<<<"totalDatabases", Num(2)>>, <<"healthyDatabases", Num(1)>>,
        <<"unhealthyDatabases", Num(1)>>, <<"totalBackups", Num(5)>>,
        <<"totalSize", Num(2048)>>, <<"extra", Str("dropped")>>>>)

\* response texts any endpoint may send with a success status
CommonTexts ==
  {"", "not valid json", LongText, "{\"error\":", "{}", "null", "[]", "\"down\""}

\* response texts any endpoint may send with a failure status
FailureTexts ==
  {"", "not valid json", LongText, "{}", "null", "[]",
   "{\"error\": \"Database not found\"}", "{\"message\": \"Access denied\"}",
   "{\"message\": \"Conflict\", \"error\": \"Already exists\"}",
   "{\"error\": 42, \"message\": \"Bad request\"}",
   "{\"error\": \"Network error: boom\"}"}

\* response texts that follow the endpoint's schema
SchemaTexts(tool) ==
  CASE tool \in {"databasus_list_databases"} ->
         {Body(Arr(<<DatabaseValue, O1("id", Str("db-2"))>>), 0)}
    [] tool \in {"databasus_get_database", "databasus_create_database",
                 "databasus_update_database", "databasus_toggle_database"} ->
         {Body(DatabaseValue, 0)}
    [] tool \in {"databasus_list_backups", "databasus_get_backup_stats"} ->
         {Body(Arr(l), 0) : l \in BackupLists}
    [] tool \in {"databasus_get_backup", "databasus_trigger_backup"} ->
         {Body(Backup("b1", "completed", 1024, Str("2024-01-01")), 0)}
    [] tool = "databasus_download_backup" -> {Body(O1("url", Str("http://dl/b1")), 0)}
    [] tool \in {"databasus_list_storages", "databasus_list_notifiers"} -> EntityListTexts
    [] tool \in {"databasus_get_storage", "databasus_create_storage", "databasus_update_storage",
                 "databasus_get_notifier", "databasus_create_notifier",
                 "databasus_update_notifier"} -> EntityTexts
    [] tool \in {"databasus_test_storage", "databasus_test_notifier"} ->
         {Body(O2("success", Bool(TRUE), "message", Str("ok")), 0)}
    [] tool = "databasus_list_workspaces" -> {Body(Arr(<<WorkspaceValue>>), 0)}
    [] tool = "databasus_get_workspace" -> {Body(WorkspaceValue, 0)}
    [] tool = "databasus_get_health_checks" ->
         {Body(Arr(<<HealthCheck("h1", "healthy"), HealthCheck("h2", "unhealthy"),
                    HealthCheck("h3", "unknown")>>), 0),
          Body(Arr([i \in 1..12 |-> HealthCheck("h" \o ToString(i), "healthy")]), 0)}
    [] tool = "databasus_get_latest_health" -> {Body(HealthCheck("h1", "healthy"), 0)}
    [] tool = "databasus_get_stats" -> {Body(StatsValue, 0)}
    [] OTHER -> {}

\* the HTTP responses the remote may give to a tool's request
Responses(tool) ==
  {[status |-> 200, text |-> t] : t \in CommonTexts \cup SchemaTexts(tool)}
  \cup {[status |-> 500, text |-> t] : t \in FailureTexts}
  \cup {[status |-> st, text |-> t] : st \in {300, 404}, t \in {"", "{}"}}
  \cup {[status |-> 299, text |-> ""]}

\* values fetch() may reject with
TransportErrors == {Error("boom"), Str("Unknown failure"), Undef}

\* the value response.text() rejects with when the body cannot be read
BodyError == Error("terminated")

\* the arguments a caller passes to a tool (valid against its schema)
IdInputs(tool) == IF tool \in DeleteTools THEN {"id-1", "a b/c?d"} ELSE {"id-1"}

ParamInputs(tool) ==
  CASE tool \in {"databasus_list_databases", "databasus_list_storages",
                 "databasus_list_notifiers", "databasus_list_workspaces",
                 "databasus_get_stats"} -> {Obj(<<>>)}
    [] tool \in {"databasus_list_backups", "databasus_get_backup_stats"} ->
         {Obj(<<>>), O1("databaseId", Str("db-1")), O1("databaseId", Str(""))}
    [] tool = "databasus_create_database" ->
         {Obj(<<<<"name", Str("main")>>, <<"type", Str("postgres")>>,
                <<"host", Str("localhost")>>, <<"port", Num(5432)>>,
                <<"databaseName", Str("app")>>, <<"username", Str("u")>>,
                <<"password", Str("pw")>>, <<"scheduleType", Str("daily")>>,
                <<"scheduleValue", Str("02:00")>>, <<"storageId", Str("s1")>>>>)}
    [] tool = "databasus_update_database" ->
         {O1("id", Str("id-1")), O2("id", Str("id-1"), "name", Str("renamed")),
          O3("id", Str("id-1"), "enabled", Bool(FALSE), "port", Num(5433))}
    [] tool = "databasus_toggle_database" ->
         {O2("id", Str("id-1"), "enabled", Bool(TRUE)),
          O2("id", Str("id-1"), "enabled", Bool(FALSE))}
    [] tool \in {"databasus_create_storage", "databasus_create_notifier"} ->
         {O3("name", Str("n1"), "type", Str("s3"), "config", O1("password", Str("pw1")))}
    [] tool \in {"databasus_update_storage", "databasus_update_notifier"} ->
         {O2("id", Str("id-1"), "name", Str("renamed")),
          O3("id", Str("id-1"), "enabled", Bool(FALSE), "config", O1("token", Str("tk1")))}
    [] tool = "databasus_get_health_checks" ->
         {O1("databaseId", Str("db-1")), O2("databaseId", Str("db-1"), "limit", Num(2)),
          O2("databaseId", Str("db-1"), "limit", Num(0)),
          O2("databaseId", Str("db-1"), "limit", Num(-1))}
    [] tool = "databasus_get_latest_health" -> {O1("databaseId", Str("db-1"))}
    [] OTHER -> {O1("id", Str(id)) : id \in IdInputs(tool)}

\* z.<type>().optional().default(v): an absent parameter takes its default
WithDefault(params, k, val) ==
  IF HasOwn(params, k) THEN params ELSE Obj(Append(params.v, <<k, val>>))

ApplyDefaults(tool, params) ==
  CASE tool = "databasus_get_health_checks" -> WithDefault(params, "limit", Num(10))
    [] tool = "databasus_create_database" ->
         WithDefault(WithDefault(WithDefault(WithDefault(params,
           "sslMode", Str("disable")), "retentionDays", Num(30)),
           "healthCheckEnabled", Bool(TRUE)), "healthCheckIntervalMinutes", Num(5))
    [] OTHER -> params

(***************************************************************************)
(* State                                                                   *)
(***************************************************************************)
VARIABLES
  process,      \* the Node.js process running index.ts: environment, position, exit code
  databasusConfig,  \* the DatabasusConfig index.ts hands to the constructor
  baseUrl,      \* DatabasusClient.baseUrl
  apiKey,       \* DatabasusClient.apiKey
  bearerToken,  \* DatabasusClient.bearerToken
  calls,        \* the tool invocations in flight, by slot
  invoked,      \* number of tool invocations started
  sent          \* number of fetch() calls made

vars == <<process, databasusConfig, baseUrl, apiKey, bearerToken, calls, invoked, sent>>

Slots == {1, 2}

client == [baseUrl |-> baseUrl, apiKey |-> apiKey, bearerToken |-> bearerToken]

NoRequest == [method |-> "", url |-> "", headers |-> Obj(<<>>), body |-> Undef]
NoResponse == [status |-> 0, text |-> ""]
Pending == [ok |-> FALSE, val |-> [t |-> "pending"]]

\* pc: idle -> fetch (awaiting fetch) -> text (awaiting response.text()) -> done
IdleCall ==
  [pc |-> "idle", tool |-> "", params |-> Undef, request |-> NoRequest, fetches |-> 0,
   fetchError |-> [t |-> "pending"], response |-> NoResponse, textRead |-> FALSE,
   outcome |-> Pending, result |-> Pending]

\* the tool groups in the order index.ts registers them
ToolGroups == <<"databases", "backups", "storages", "notifiers", "workspaces">>

\* the process once index.ts has run to "running on stdio" with this config
Started(config) ==
  [pc |-> "running",
   env |-> [DATABASUS_URL |-> Str(config.baseUrl), DATABASUS_API_KEY |-> config.apiKey,
            DATABASUS_BEARER_TOKEN |-> config.bearerToken],
   exitCode |-> Undef, clients |-> 1, servers |-> 1, registered |-> ToolGroups,
   connects |-> 1, connectError |-> [t |-> "pending"]]

\* the server is started and connected; its tools are invoked
Init ==
  /\ \E config \in ConfigInputs :
       LET c == Constructor(config) IN
       /\ process = Started(config)
       /\ databasusConfig = config
       /\ baseUrl = c.baseUrl
       /\ apiKey = c.apiKey
       /\ bearerToken = c.bearerToken
  /\ calls = [s \in Slots |-> IdleCall]
  /\ invoked = 0
  /\ sent = 0

\* faulty variant: a failed request is issued again
AfterOutcomeRetry(outcome) == IF outcome.ok THEN "done" ELSE "fetch"

\* request() returns or throws once fetch and the body are settled: a failed
\* request is not issued again
AfterOutcome(outcome) == "done"

\* the call record once the client method has settled with outcome
Settle(c, outcome) ==
  LET call == HandlerCall(c.tool, c.params)
      next == AfterOutcome(outcome) IN
  IF next = "done"
  THEN [c EXCEPT !.pc = "done", !.outcome = MethodOutcome(call, outcome),
                 !.result = HandlerSettle(c.tool, c.params, MethodOutcome(call, outcome))]
  ELSE [c EXCEPT !.pc = "fetch", !.fetches = @ + 1]

\* a caller invokes a tool: the handler runs up to its await of fetch()
Invoke(s, tool, args) ==
  /\ calls[s].pc = "idle"
  /\ invoked < MaxInvocations
  /\ LET params == ApplyDefaults(tool, args) IN
     calls' = [calls EXCEPT ![s] =
       [IdleCall EXCEPT !.pc = "fetch", !.tool = tool, !.params = params,
                        !.request = RequestOptions(client, HandlerCall(tool, params)),
                        !.fetches = 1]]
  /\ invoked' = invoked + 1
  /\ sent' = sent + 1
  /\ UNCHANGED <<process, databasusConfig, baseUrl, apiKey, bearerToken>>

\* fetch() rejects
FetchReject(s, error) ==
  /\ calls[s].pc = "fetch"
  /\ LET c == Settle([calls[s] EXCEPT !.fetchError = error], RequestFetchRejected(error)) IN
     /\ calls' = [calls EXCEPT ![s] = c]
     /\ sent' = IF c.pc = "fetch" THEN sent + 1 ELSE sent
  /\ UNCHANGED <<process, databasusConfig, baseUrl, apiKey, bearerToken, invoked>>

\* fetch() resolves with a response; the handler awaits response.text()
FetchResolve(s, response) ==
  /\ calls[s].pc = "fetch"
  /\ calls' = [calls EXCEPT ![s] = [@ EXCEPT !.pc = "text", !.response = response]]
  /\ UNCHANGED <<process, databasusConfig, baseUrl, apiKey, bearerToken, invoked, sent>>

\* faulty variant: the response is kept in one place shared by all calls
TextResolveShared(s) ==
  /\ calls[s].pc = "text"
  /\ LET r == calls[1].response
         c == Settle([calls[s] EXCEPT !.textRead = TRUE], RequestAfterText(r.status, r.text)) IN
     /\ calls' = [calls EXCEPT ![s] = c]
     /\ sent' = IF c.pc = "fetch" THEN sent + 1 ELSE sent
  /\ UNCHANGED <<process, databasusConfig, baseUrl, apiKey, bearerToken, invoked>>

\* response.text() resolves; the rest of request() and of the handler runs
TextResolve(s) ==
  /\ calls[s].pc = "text"
  /\ LET r == calls[s].response
         c == Settle([calls[s] EXCEPT !.textRead = TRUE], RequestAfterText(r.status, r.text)) IN
     /\ calls' = [calls EXCEPT ![s] = c]
     /\ sent' = IF c.pc = "fetch" THEN sent + 1 ELSE sent
  /\ UNCHANGED <<process, databasusConfig, baseUrl, apiKey, bearerToken, invoked>>

\* response.text() rejects: request() does not catch it
TextReject(s, error) ==
  /\ calls[s].pc = "text"
  /\ LET c == Settle(calls[s], Rejected(error)) IN
     /\ calls' = [calls EXCEPT ![s] = c]
     /\ sent' = IF c.pc = "fetch" THEN sent + 1 ELSE sent
  /\ UNCHANGED <<process, databasusConfig, baseUrl, apiKey, bearerToken, invoked>>

\* the caller has received the result
Return(s) ==
  /\ calls[s].pc = "done"
  /\ calls' = [calls EXCEPT ![s] = IdleCall]
  /\ UNCHANGED <<process, databasusConfig, baseUrl, apiKey, bearerToken, invoked, sent>>

\* one handler in flight at a time
Next ==
  \/ \E tool \in Tools : \E args \in ParamInputs(tool) : Invoke(1, tool, args)
  \/ \E error \in TransportErrors : FetchReject(1, error)
  \/ \E response \in Responses(calls[1].tool) : FetchResolve(1, response)
  \/ TextResolve(1)
  \/ TextReject(1, BodyError)
  \/ Return(1)

Spec == Init /\ [][Next]_vars

(***************************************************************************)
(* index.ts: the start of the process                                      *)
(***************************************************************************)
\* what process.env may hold for the three variables
Environments ==
  {[DATABASUS_URL |-> u, DATABASUS_API_KEY |-> k, DATABASUS_BEARER_TOKEN |-> b] :
     u \in {Undef, Str(""), Str("http://h"), Str("http://h/")},
     k \in {Undef, Str(""), Secret},
     b \in {Undef, Secret}}
NoConfig == [baseUrl |-> "", apiKey |-> Undef, bearerToken |-> Undef]

\* nothing of index.ts has run yet
InitStartup ==
  /\ \E env \in Environments :
       process = [pc |-> "start", env |-> env, exitCode |-> Undef, clients |-> 0,
                  servers |-> 0, registered |-> <<>>, connects |-> 0,
                  connectError |-> [t |-> "pending"]]
  /\ databasusConfig = NoConfig
  /\ baseUrl = "" /\ apiKey = Undef /\ bearerToken = Undef
  /\ calls = [s \in Slots |-> IdleCall]
  /\ invoked = 0
  /\ sent = 0

\* process.exit(code)
Exit(p, code) == [p EXCEPT !.pc = "exited", !.exitCode = Num(code)]

\* faulty variant: only an unset DATABASUS_URL ends the process
CheckEnvironmentUnsetOnly ==
  /\ process.pc = "start"
  /\ process' = IF process.env.DATABASUS_URL = Undef THEN Exit(process, 1)
                ELSE [process EXCEPT !.pc = "construct"]
  /\ UNCHANGED <<databasusConfig, baseUrl, apiKey, bearerToken, calls, invoked, sent>>

\* if (!DATABASUS_URL) { ...; process.exit(1); }
CheckEnvironment ==
  /\ process.pc = "start"
  /\ process' = IF ~Truthy(process.env.DATABASUS_URL) THEN Exit(process, 1)
                ELSE [process EXCEPT !.pc = "construct"]
  /\ UNCHANGED <<databasusConfig, baseUrl, apiKey, bearerToken, calls, invoked, sent>>

\* const client = new DatabasusClient({...})
ConstructClient ==
  /\ process.pc = "construct"
  /\ LET config == [baseUrl |-> process.env.DATABASUS_URL.v,
                    apiKey |-> process.env.DATABASUS_API_KEY,
                    bearerToken |-> process.env.DATABASUS_BEARER_TOKEN]
         c == Constructor(config) IN
     /\ databasusConfig' = config
     /\ baseUrl' = c.baseUrl
     /\ apiKey' = c.apiKey
     /\ bearerToken' = c.bearerToken
  /\ process' = [process EXCEPT !.pc = "server", !.clients = @ + 1]
  /\ UNCHANGED <<calls, invoked, sent>>

\* const server = new McpServer({...})
CreateServer ==
  /\ process.pc = "server"
  /\ process' = [process EXCEPT !.pc = "register", !.servers = @ + 1]
  /\ UNCHANGED <<databasusConfig, baseUrl, apiKey, bearerToken, calls, invoked, sent>>

\* the next register...Tools(server, client) call
RegisterTools ==
  /\ process.pc = "register"
  /\ Len(process.registered) < Len(ToolGroups)
  /\ process' = [process EXCEPT
                   !.registered = Append(@, ToolGroups[Len(process.registered) + 1])]
  /\ UNCHANGED <<databasusConfig, baseUrl, apiKey, bearerToken, calls, invoked, sent>>

\* main() runs up to its await of server.connect(transport)
Main ==
  /\ process.pc = "register"
  /\ Len(process.registered) = Len(ToolGroups)
  /\ process' = [process EXCEPT !.pc = "connecting", !.connects = @ + 1]
  /\ UNCHANGED <<databasusConfig, baseUrl, apiKey, bearerToken, calls, invoked, sent>>

\* server.connect() resolves: 'Databasus MCP Server running on stdio'
ConnectResolve ==
  /\ process.pc = "connecting"
  /\ process' = [process EXCEPT !.pc = "running"]
  /\ UNCHANGED <<databasusConfig, baseUrl, apiKey, bearerToken, calls, invoked, sent>>

\* server.connect() rejects: main().catch logs and calls process.exit(1)
ConnectReject(error) ==
  /\ process.pc = "connecting"
  /\ process' = Exit([process EXCEPT !.connectError = error], 1)
  /\ UNCHANGED <<databasusConfig, baseUrl, apiKey, bearerToken, calls, invoked, sent>>

NextStartup ==
  \/ CheckEnvironment
  \/ ConstructClient
  \/ CreateServer
  \/ RegisterTools
  \/ Main
  \/ ConnectResolve
  \/ \E error \in TransportErrors : ConnectReject(error)

SpecStartup == InitStartup /\ [][NextStartup]_vars

\* Handlers are async functions on one event loop: a second tool may be
\* invoked while the first awaits fetch() or response.text(), and the two
\* then advance in any order.
OverlapTools == {"databasus_get_database", "databasus_delete_storage"}
OverlapResponses(tool) ==
  {r \in Responses(tool) :
     \/ r.status = 200 /\ r.text \in {"not valid json"} \cup SchemaTexts(tool)
     \/ r.status = 500 /\ r.text = "{\"error\": \"Database not found\"}"
     \/ r.status = 404 /\ r.text = ""}

NextOverlap ==
  \E s \in Slots :
    \/ \E tool \in OverlapTools : \E args \in ParamInputs(tool) : Invoke(s, tool, args)
    \/ \E error \in TransportErrors : FetchReject(s, error)
    \/ \E response \in OverlapResponses(calls[s].tool) : FetchResolve(s, response)
    \/ TextResolve(s)
    \/ TextReject(s, BodyError)
    \/ Return(s)

SpecOverlap == Init /\ [][NextOverlap]_vars
(***************************************************************************)
(* Properties                                                              *)
(***************************************************************************)
Done(s) == calls[s].pc = "done"
Issued(s) == calls[s].pc # "idle"

\* the client method was rejected, with this thrown value
Threw(s) == Done(s) /\ ~calls[s].outcome.ok
Thrown(s) == calls[s].outcome.val

FetchFailed(s) == calls[s].fetchError.t # "pending"
GotResponse(s) == calls[s].response # NoResponse
BodyRead(s) == calls[s].textRead
BodyUnreadable(s) == Done(s) /\ GotResponse(s) /\ ~BodyRead(s)

ValidJson(text) == JSONParse(text).ok
BadBody(s) == BodyRead(s) /\ calls[s].response.text # "" /\ ~ValidJson(calls[s].response.text)
ParsedBody(s) ==
  IF calls[s].response.text = "" THEN Undef ELSE JSONParse(calls[s].response.text).val
Is2xx(status) == status \in 200..299

\* C1: on every request issued, a configured (non-empty) bearer token puts
\* "Authorization: Bearer <token>" in the headers and keeps X-API-Key out of
\* them, whether or not an API key is configured too.
C1_BearerTakesPrecedence ==
  \A s \in Slots :
    (Issued(s) /\ Truthy(bearerToken)) =>
      /\ GetOwn(calls[s].request.headers, "Authorization") = Str("Bearer " \o bearerToken.v)
      /\ ~HasOwn(calls[s].request.headers, "X-API-Key")

C1_Witness ==
  \E s \in Slots : Issued(s) /\ Truthy(bearerToken) /\ Truthy(apiKey)

\* the message the claim C5 prescribes for a non-2xx response
ExpectedStatusMessage(status, text) ==
  LET p == JSONParse(text)
      field(k) == IF p.ok /\ p.val.t = "object" THEN GetOwn(p.val, k) ELSE Undef IN
  IF field("error").t = "string" THEN field("error").v
  ELSE IF field("message").t = "string" THEN field("message").v
  ELSE "HTTP error " \o ToString(status)

\* C5 as claimed: every operation whose response has a non-2xx status rejects
\* with the body's string error field, else its string message field, else
\* "HTTP error <status>".
C5_Original ==
  \A s \in Slots :
    (Done(s) /\ BodyRead(s) /\ ~Is2xx(calls[s].response.status)) =>
      calls[s].outcome =
        Rejected(Error(ExpectedStatusMessage(calls[s].response.status, calls[s].response.text)))

\* C5 amended: the same, for the non-2xx responses whose body was read and is
\* empty or valid JSON; such an operation never resolves with data.
C5_StatusErrorMessage ==
  \A s \in Slots :
    (Done(s) /\ BodyRead(s) /\ ~BadBody(s) /\ ~Is2xx(calls[s].response.status)) =>
      calls[s].outcome =
        Rejected(Error(ExpectedStatusMessage(calls[s].response.status, calls[s].response.text)))

C5_Witness ==
  \E s \in Slots :
    /\ Done(s) /\ BodyRead(s) /\ calls[s].response.status = 500
    /\ HasOwn(ParsedBody(s), "error") /\ HasOwn(ParsedBody(s), "message")
    /\ Thrown(s) = Error("Bad request")

\* C6: when fetch rejects, the operation rejects with "Network error: <m>",
\* <m> being the message of a rejecting Error and "Unknown error" otherwise;
\* no response body is read and no data is returned.
C6_NetworkError ==
  \A s \in Slots :
    (Done(s) /\ FetchFailed(s)) =>
      /\ calls[s].outcome =
           Rejected(Error("Network error: " \o
             (IF calls[s].fetchError.t = "error" THEN calls[s].fetchError.v
              ELSE "Unknown error")))
      /\ ~BodyRead(s)
      /\ ~GotResponse(s)

C6_Witness ==
  \E s \in Slots :
    Done(s) /\ calls[s].fetchError = Str("Unknown failure")
    /\ Thrown(s) = Error("Network error: Unknown error")

\* C7: a non-empty response text that is not JSON makes the operation reject
\* with "Invalid JSON response: " followed by exactly the first
\* min(100, length) characters of the text.
C7_InvalidJsonMessage ==
  \A s \in Slots :
    (Done(s) /\ BadBody(s)) =>
      LET text == calls[s].response.text
          n == IF Len(text) < 100 THEN Len(text) ELSE 100 IN
      /\ ~calls[s].outcome.ok
      /\ IsErrorInstance(Thrown(s))
      /\ Thrown(s).v = "Invalid JSON response: " \o SubSeq(text, 1, n)
      /\ Len(Thrown(s).v) = Len("Invalid JSON response: ") + n

C7_Witness ==
  \E s \in Slots :
    Done(s) /\ BadBody(s) /\ Len(calls[s].response.text) = 200
    /\ Thrown(s) = Error("Invalid JSON response: " \o Repeat("abcdefghij", 10))

\* C10: every invocation makes at most one fetch call, has its result only
\* once that call has settled, and never issues a failed request again: the
\* requests sent never outnumber the invocations.
C10_OneRequestPerInvocation ==
  /\ sent <= invoked
  /\ \A s \in Slots :
       /\ calls[s].fetches <= 1
       /\ calls[s].result # Pending => Done(s) /\ (FetchFailed(s) \/ GotResponse(s))

C10_Witness ==
  \E s \in Slots : Threw(s) /\ invoked = 2 /\ sent = 2

\* the text item of a handler's content envelope
EnvelopeText(env) == GetOwn(GetOwn(env, "content").v[1], "text")
ResultText(s) == EnvelopeText(calls[s].result.val)

StorageMaskTools ==
  {"databasus_get_storage", "databasus_create_storage", "databasus_update_storage"}
NotifierMaskTools ==
  {"databasus_get_notifier", "databasus_create_notifier", "databasus_update_notifier"}
MaskTools == StorageMaskTools \cup NotifierMaskTools

Marker(tool) == IF tool \in StorageMaskTools THEN StorageMarker ELSE NotifierMarker
OwnKeys(tool) == IF tool \in StorageMaskTools THEN SENSITIVE_KEYS ELSE sensitiveKeys

\* a get/create/update tool has passed the remote's config map to its redactor
Redacted(s) ==
  /\ Done(s) /\ calls[s].tool \in MaskTools /\ calls[s].outcome.ok
  /\ GetOwn(calls[s].outcome.val, "config").t = "object"
  /\ calls[s].result.ok /\ ResultText(s).t = "string"
RemoteConfig(s) == GetOwn(calls[s].outcome.val, "config")
ShownConfig(s) == GetOwn(JSONParse(ResultText(s).v).val, "config")

\* the six keywords the claim C2 names
ClaimKeywords == <<"secret", "password", "token", "key", "credential", "url">>

\* C2 as claimed: whichever redactor a config map is given to, every entry
\* whose key contains one of secret, password, token, key, credential, url
\* (case-insensitively) and whose value is a string comes out as that
\* redactor's marker.
C2_Original ==
  \A s \in Slots :
    Redacted(s) =>
      \A i \in 1..Len(RemoteConfig(s).v) :
        LET e == RemoteConfig(s).v[i] IN
        (IsSensitive(ClaimKeywords, e[1]) /\ e[2].t = "string") =>
          GetOwn(ShownConfig(s), e[1]) = Str(Marker(calls[s].tool))

\* every string under a key that keys makes sensitive, at any depth of
\* remote, is the marker at the same place of shown
RECURSIVE DeepMasked(_, _, _, _)
DeepMasked(remote, shown, keys, marker) ==
  \A i \in 1..Len(remote.v) :
    LET k == remote.v[i][1]
        x == remote.v[i][2]
        y == GetOwn(shown, k) IN
    IF IsSensitive(keys, k) /\ x.t = "string" THEN y = Str(marker)
    ELSE IF x.t = "object" THEN y.t = "object" /\ DeepMasked(x, y, keys, marker)
    ELSE TRUE

\* C3 as claimed: at the storage and at the notifier call site, a string
\* under a key the redactor holds sensitive is replaced by the marker at
\* every nesting depth of the config.
C3_Original ==
  \A s \in Slots :
    Redacted(s) =>
      DeepMasked(RemoteConfig(s), ShownConfig(s), OwnKeys(calls[s].tool), Marker(calls[s].tool))

\* x with every string under a sensitive key, at any depth, given another value
RECURSIVE VaryConfig(_, _)
VaryConfig(x, keys) ==
  IF x.t # "object" THEN x
  ELSE Obj([i \in 1..Len(x.v) |->
         IF IsSensitive(keys, x.v[i][1]) /\ x.v[i][2].t = "string"
         THEN <<x.v[i][1], Str(x.v[i][2].v \o "-other")>>
         ELSE <<x.v[i][1], VaryConfig(x.v[i][2], keys)>>])

\* a remote response that differs only in those strings of its config maps
VaryEntity(x, keys) ==
  IF HasOwn(x, "config")
  THEN Obj(SetOwn(x.v, "config", VaryConfig(GetOwn(x, "config"), keys)))
  ELSE x
VaryData(data, keys) ==
  IF data.t = "array" THEN Arr([i \in 1..Len(data.v) |-> VaryEntity(data.v[i], keys)])
  ELSE VaryEntity(data, keys)

\* C4 as claimed: the result of a storage or notifier tool does not depend on
\* the strings the remote stores under sensitive keys of a config map: the
\* response that differs only in them gives the same result.
C4_Original ==
  \A s \in Slots :
    (Done(s) /\ calls[s].tool \in StorageTools \cup NotifierTools /\ calls[s].outcome.ok) =>
      LET keys == IF calls[s].tool \in StorageTools THEN SENSITIVE_KEYS ELSE sensitiveKeys IN
      HandlerSettle(calls[s].tool, calls[s].params,
                    Resolved(VaryData(calls[s].outcome.val, keys))) = calls[s].result

\* the failure a settled client operation met, by the kinds the claim C8 names
KindOf(s) ==
  IF FetchFailed(s) THEN "NetworkError"
  ELSE IF BadBody(s) THEN "ResponseFormatError"
  ELSE IF BodyRead(s) /\ ~Is2xx(calls[s].response.status) THEN "ApiError"
  ELSE "none"

\* the values request() throws for each kind of failure
AllResponses == UNION {Responses(tool) : tool \in Tools}
NetworkThrown == {RequestFetchRejected(e).val : e \in TransportErrors}
FormatThrown ==
  {RequestAfterText(r.status, r.text).val :
     r \in {q \in AllResponses : q.text # "" /\ ~ValidJson(q.text)}}
ApiThrown ==
  {RequestAfterText(r.status, r.text).val :
     r \in {q \in AllResponses : ~Is2xx(q.status) /\ (q.text = "" \/ ValidJson(q.text))}}
ThrownBy(kind) ==
  CASE kind = "NetworkError" -> NetworkThrown
    [] kind = "ResponseFormatError" -> FormatThrown
    [] kind = "ApiError" -> ApiThrown

StartsWith(str, prefix) ==
  Len(str) >= Len(prefix) /\ SubSeq(str, 1, Len(prefix)) = prefix

C9_Original ==
  \A s \in Slots :
    Done(s) =>
      /\ calls[s].result.ok
      /\ ResultText(s).t = "string"
      /\ ValidJson(ResultText(s).v)
      /\ Threw(s) =>
           GetOwn(JSONParse(ResultText(s).v).val, "error") =
             Str(IF IsErrorInstance(Thrown(s)) THEN Thrown(s).v
                 ELSE FallbackMessage(calls[s].tool))

CreateTools ==
  {"databasus_create_database", "databasus_create_storage", "databasus_create_notifier"}
UpdateTools ==
  {"databasus_update_database", "databasus_toggle_database", "databasus_update_storage",
   "databasus_update_notifier"}
ActionTools == {"databasus_trigger_backup", "databasus_test_storage", "databasus_test_notifier"}

\* the entries of the payload a create or update tool was called with: its
\* parameters (defaults applied) without the id that goes into the path
PayloadEntries(s) ==
  {calls[s].params.v[i] : i \in {j \in 1..Len(calls[s].params.v) :
                                   calls[s].params.v[j][1] # "id"}}
SentBody(s) == calls[s].request.body

\* C11: a GET or DELETE request and the POST of an action trigger carry no
\* body; the request of a create or update tool carries a body that is JSON
\* text and parses to exactly the payload: the same keys with the same values.
C11_RequestBody ==
  \A s \in Slots :
    Issued(s) =>
      /\ calls[s].request.method \in {"GET", "DELETE"} => SentBody(s) = Undef
      /\ calls[s].tool \in ActionTools =>
           calls[s].request.method = "POST" /\ SentBody(s) = Undef
      /\ calls[s].tool \in CreateTools \cup UpdateTools =>
           /\ calls[s].request.method \in {"POST", "PUT"}
           /\ SentBody(s).t = "string"
           /\ JSONParse(SentBody(s).v).ok
           /\ LET parsed == JSONParse(SentBody(s).v).val IN
              /\ parsed.t = "object"
              /\ Len(parsed.v) = Cardinality(PayloadEntries(s))
              /\ {parsed.v[i] : i \in 1..Len(parsed.v)} = PayloadEntries(s)
           /\ SentBody(s) = JSONStringify(HandlerCall(calls[s].tool, calls[s].params).body, 0)

C11_Witness ==
  \E s \in Slots :
    /\ Issued(s) /\ calls[s].tool = "databasus_update_database"
    /\ calls[s].request.method = "PUT"
    /\ SentBody(s) = Str("{\"port\":5433,\"enabled\":false}")

ListTools ==
  {"databasus_list_databases", "databasus_list_backups", "databasus_list_storages",
   "databasus_list_notifiers", "databasus_list_workspaces"}
GetTools ==
  {"databasus_get_database", "databasus_get_backup", "databasus_get_storage",
   "databasus_get_notifier", "databasus_get_workspace"}

\* the collection a tool's route belongs to
Collection(tool) ==
  CASE tool \in DatabaseTools -> "databases"
    [] tool \in BackupTools -> "backups"
    [] tool \in StorageTools -> "storages"
    [] tool \in NotifierTools -> "notifiers"
    [] OTHER -> "workspaces"

\* the route table of the claim C12: method and path of a tool's request
Route(tool, params) ==
  LET coll == "/api/" \o Collection(tool)
      id == GetOwn(params, "id").v
      databaseId == GetOwn(params, "databaseId") IN
  CASE tool \in {"databasus_list_backups", "databasus_get_backup_stats"} ->
         <<"GET", IF Truthy(databaseId) THEN coll \o "?databaseId=" \o databaseId.v ELSE coll>>
    [] tool \in ListTools \ {"databasus_list_backups"} -> <<"GET", coll>>
    [] tool \in GetTools -> <<"GET", coll \o "/" \o id>>
    [] tool \in CreateTools -> <<"POST", coll>>
    [] tool \in UpdateTools -> <<"PUT", coll \o "/" \o id>>
    [] tool \in DeleteTools -> <<"DELETE", coll \o "/" \o id>>
    [] tool = "databasus_trigger_backup" -> <<"POST", coll \o "/" \o id \o "/backup">>
    [] tool \in {"databasus_test_storage", "databasus_test_notifier"} ->
         <<"POST", coll \o "/" \o id \o "/test">>
    [] tool = "databasus_download_backup" -> <<"GET", coll \o "/" \o id \o "/download">>
    [] tool = "databasus_get_health_checks" ->
         <<"GET", "/api/databases/" \o databaseId.v \o "/health-checks">>
    [] tool = "databasus_get_latest_health" ->
         <<"GET", "/api/databases/" \o databaseId.v \o "/health-checks/latest">>
    [] tool = "databasus_get_stats" -> <<"GET", "/api/stats">>

\* C12: every request has the method of its route and the URL made of the
\* stored base URL followed by the route's path, the id put in as it is.
C12_RouteTable ==
  \A s \in Slots :
    Issued(s) =>
      /\ calls[s].request.method = Route(calls[s].tool, calls[s].params)[1]
      /\ calls[s].request.url = baseUrl \o Route(calls[s].tool, calls[s].params)[2]

C12_Witness ==
  \E s \in Slots :
    /\ Issued(s) /\ calls[s].tool = "databasus_delete_storage"
    /\ calls[s].request.method = "DELETE"
    /\ calls[s].request.url = "http://h/api/storages/a b/c?d"

\* the tools whose handler awaits client.getBackups(databaseId)
GetBackupsTools == {"databasus_list_backups", "databasus_get_backup_stats"}

\* a JSON object as the remote sent it: absent members are not sent
AsSent(x) == Obj(DefinedEntries(x.v))

\* C13: getBackups requests /api/backups?databaseId=<id> when a (non-empty)
\* database id is given and /api/backups with no query string otherwise, and
\* after a 2xx response carrying a JSON array it resolves to that array: the
\* same elements in the same order.
C13_GetBackups ==
  \A s \in Slots :
    (Issued(s) /\ calls[s].tool \in GetBackupsTools) =>
      LET databaseId == GetOwn(calls[s].params, "databaseId") IN
      /\ calls[s].request.method = "GET"
      /\ calls[s].request.url =
           IF Truthy(databaseId) THEN baseUrl \o "/api/backups?databaseId=" \o databaseId.v
           ELSE baseUrl \o "/api/backups"
      /\ \A l \in BackupLists :
           (Done(s) /\ BodyRead(s) /\ Is2xx(calls[s].response.status)
             /\ calls[s].response.text = Body(Arr(l), 0)) =>
             /\ calls[s].outcome.ok
             /\ calls[s].outcome.val.t = "array"
             /\ Len(calls[s].outcome.val.v) = Len(l)
             /\ \A i \in 1..Len(l) : calls[s].outcome.val.v[i] = AsSent(l[i])

C13_Witness ==
  \E s \in Slots :
    /\ Done(s) /\ calls[s].tool = "databasus_list_backups"
    /\ calls[s].request.url = "http://h/api/backups?databaseId=db-1"
    /\ calls[s].outcome.ok /\ calls[s].outcome.val.t = "array"
    /\ Len(calls[s].outcome.val.v) = 4
    /\ GetOwn(calls[s].outcome.val.v[3], "id") = Str("b4")

\* a 2xx response whose body was read
Succeeded(s) == Done(s) /\ BodyRead(s) /\ Is2xx(calls[s].response.status)

\* C14 as claimed: after a 2xx response every client operation resolves to
\* undefined when the text is empty and to exactly the parsed value when the
\* text is valid JSON.
C14_Original ==
  \A s \in Slots :
    Succeeded(s) =>
      /\ calls[s].response.text = "" => calls[s].outcome = Resolved(Undef)
      /\ ValidJson(calls[s].response.text) =>
           calls[s].outcome = Resolved(JSONParse(calls[s].response.text).val)

\* C14 amended: the same for every operation but the four deletes, which
\* resolve to undefined whatever the 2xx body holds; the parsed value is the
\* value the remote serialized, not validated and not reshaped.
C14_SuccessValue ==
  \A s \in Slots :
    Succeeded(s) =>
      /\ calls[s].response.text = "" => calls[s].outcome = Resolved(Undef)
      /\ ValidJson(calls[s].response.text) =>
           calls[s].outcome =
             Resolved(IF calls[s].tool \in DeleteTools THEN Undef
                      ELSE JSONParse(calls[s].response.text).val)
      /\ \A x \in {DatabaseValue, WorkspaceValue, StatsValue, Obj(<<>>), Arr(<<>>), Null,
                   Str("down")} :
           (calls[s].response.text = Body(x, 0) /\ calls[s].tool \notin DeleteTools) =>
             calls[s].outcome = Resolved(x)

\* a get whose 2xx body is a JSON string, not the object its type promises
C14_Witness ==
  \E s \in Slots :
    /\ Succeeded(s) /\ calls[s].tool = "databasus_get_workspace"
    /\ calls[s].response.text = "\"down\""
    /\ calls[s].outcome = Resolved(Str("down"))

SentHeaders(s) == calls[s].request.headers

\* C15: every request carries Content-Type: application/json; when no
\* (non-empty) bearer token is configured it carries no Authorization header,
\* and it carries X-API-Key, with the key as its value, exactly when a
\* (non-empty) API key is configured.
C15_ApiKeyHeader ==
  \A s \in Slots :
    Issued(s) =>
      /\ GetOwn(SentHeaders(s), "Content-Type") = Str("application/json")
      /\ ~Truthy(bearerToken) =>
           /\ ~HasOwn(SentHeaders(s), "Authorization")
           /\ HasOwn(SentHeaders(s), "X-API-Key") <=> Truthy(apiKey)
           /\ Truthy(apiKey) => GetOwn(SentHeaders(s), "X-API-Key") = apiKey
           /\ ~Truthy(apiKey) => Len(SentHeaders(s).v) = 1

\* a request of a client with no credential at all
C15_Witness ==
  \E s \in Slots :
    /\ Issued(s) /\ bearerToken = Undef /\ apiKey = Undef
    /\ SentHeaders(s) = Obj(<<<<"Content-Type", Str("application/json")>>>>)

EndsWithSlash(u) == Len(u) > 0 /\ SubSeq(u, Len(u), Len(u)) = "/"

\* C16: the stored base URL is the configured one without its last character
\* when that is a slash (so one of two trailing slashes stays) and the
\* configured one unchanged otherwise; every request URL is the stored base
\* URL directly followed by the path of the operation.
C16_BaseUrl ==
  /\ IF EndsWithSlash(databasusConfig.baseUrl)
     THEN baseUrl \o "/" = databasusConfig.baseUrl
     ELSE baseUrl = databasusConfig.baseUrl
  /\ \A s \in Slots :
       Issued(s) =>
         /\ StartsWith(calls[s].request.url, baseUrl \o "/api/")
         /\ calls[s].request.url = baseUrl \o Route(calls[s].tool, calls[s].params)[2]

\* a request of a client configured with two trailing slashes
C16_Witness ==
  \E s \in Slots :
    /\ Issued(s) /\ calls[s].tool = "databasus_get_stats"
    /\ databasusConfig.baseUrl = "http://h//"
    /\ baseUrl = "http://h/"
    /\ calls[s].request.url = "http://h//api/stats"

\* C17 as claimed: whichever redactor a config map is given to, an entry
\* that is neither a string under a sensitive key nor a nested map has in
\* the result the value it has in the input: a string under another key, and
\* a number, boolean, null or list under any key.
C17_Original ==
  \A s \in Slots :
    Redacted(s) =>
      \A i \in 1..Len(RemoteConfig(s).v) :
        LET e == RemoteConfig(s).v[i] IN
        (~(IsSensitive(OwnKeys(calls[s].tool), e[1]) /\ e[2].t = "string")
          /\ e[2].t # "object") =>
          GetOwn(ShownConfig(s), e[1]) = e[2]

\* the redactor of a tool's call site
Redact(tool, config) ==
  IF tool \in StorageMaskTools THEN maskSensitiveConfig_storages(config)
  ELSE maskSensitiveConfig_notifiers(config)

\* C18: what a redactor returns depends on its argument alone, whatever was
\* called before (the config a tool shows is the redactor's value for the
\* config the remote sent, in a first invocation as in a later one), and
\* redacting what a redactor returned changes nothing.
C18_Idempotent ==
  \A s \in Slots :
    Redacted(s) =>
      /\ ShownConfig(s) = Redact(calls[s].tool, RemoteConfig(s))
      /\ Redact(calls[s].tool, ShownConfig(s)) = ShownConfig(s)
      /\ Redact(calls[s].tool, Redact(calls[s].tool, RemoteConfig(s))) =
           Redact(calls[s].tool, RemoteConfig(s))

\* a second invocation has shown a notifier config with a masked password
C18_Witness ==
  \E s \in Slots :
    /\ Redacted(s) /\ calls[s].tool = "databasus_get_notifier" /\ invoked = 2
    /\ GetOwn(RemoteConfig(s), "password") = Str("pw1")
    /\ GetOwn(ShownConfig(s), "password") = Str(NotifierMarker)

\* result has the keys of input in the same order, a string where input has
\* a string, a map of the same shape where input has a map, and the same
\* value everywhere else
RECURSIVE SameShape(_, _)
SameShape(input, result) ==
  /\ result.t = "object"
  /\ Len(result.v) = Len(input.v)
  /\ \A i \in 1..Len(input.v) :
       LET x == input.v[i][2]
           y == result.v[i][2] IN
       /\ result.v[i][1] = input.v[i][1]
       /\ CASE x.t = "string" -> y.t = "string"
            [] x.t = "object" -> SameShape(x, y)
            [] OTHER -> y = x

\* C19 as claimed: the result of either redactor has the shape of its
\* argument, at every nesting level the same keys with values of the same
\* kind, and the argument is as it was before the call.
C19_Original ==
  \A s \in Slots :
    Redacted(s) =>
      /\ SameShape(RemoteConfig(s), ShownConfig(s))
      /\ calls[s].outcome.val = JSONParse(calls[s].response.text).val

\* C20 as claimed: when the client resolves the latest health check to null,
\* databasus_get_latest_health returns an envelope that is no error result
\* and whose text parses to JSON null.
C20_Original ==
  \A s \in Slots :
    (Done(s) /\ calls[s].tool = "databasus_get_latest_health"
      /\ calls[s].outcome = Resolved(Null)) =>
      /\ calls[s].result.ok
      /\ ~HasOwn(calls[s].result.val, "isError")
      /\ ResultText(s).t = "string"
      /\ JSONParse(ResultText(s).v) = [ok |-> TRUE, val |-> Null]

\* databasus_get_health_checks has finished on a list of health checks
HealthListed(s) ==
  /\ Done(s) /\ calls[s].tool = "databasus_get_health_checks" /\ calls[s].outcome.ok
  /\ calls[s].outcome.val.t = "array"
  /\ \A i \in 1..Len(calls[s].outcome.val.v) : calls[s].outcome.val.v[i].t = "object"
ShownList(s) == JSONParse(ResultText(s).v).val

\* C21 as claimed: databasus_get_health_checks returns the first
\* min(limit, n) of the n health checks the client resolved to, in their
\* order, limit being 10 when the caller gave none, and never more than
\* limit entries.
C21_Original ==
  \A s \in Slots :
    HealthListed(s) =>
      LET limit == GetOwn(calls[s].params, "limit").v
          given == calls[s].outcome.val.v IN
      /\ ResultText(s).t = "string" /\ ShownList(s).t = "array"
      /\ Len(ShownList(s).v) <= limit
      /\ Len(ShownList(s).v) = Min(limit, Len(given))
      /\ \A i \in 1..Len(ShownList(s).v) :
           GetOwn(ShownList(s).v[i], "id") = GetOwn(given[i], "id")

BackupStatuses == {"completed", "failed", "running", "pending"}

\* databasus_get_backup_stats has finished on a list of backups as the
\* Backup type declares them
StatsComputed(s) ==
  /\ Done(s) /\ calls[s].tool = "databasus_get_backup_stats" /\ calls[s].outcome.ok
  /\ calls[s].outcome.val.t = "array"
  /\ \A i \in 1..Len(calls[s].outcome.val.v) :
       LET b == calls[s].outcome.val.v[i] IN
       /\ b.t = "object"
       /\ GetOwn(b, "status").t = "string" /\ GetOwn(b, "status").v \in BackupStatuses
       /\ GetOwn(b, "size").t = "number"
GivenBackups(s) == calls[s].outcome.val.v
ShownStats(s) == JSONParse(ResultText(s).v).val

CountStatus(items, status) ==
  Cardinality({i \in 1..Len(items) : GetOwn(items[i], "status") = Str(status)})

\* the sizes of the completed backups among the first n of items, added up
RECURSIVE CompletedSize(_, _)
CompletedSize(items, n) ==
  IF n = 0 THEN 0
  ELSE CompletedSize(items, n - 1)
       + (IF GetOwn(items[n], "status") = Str("completed") THEN GetOwn(items[n], "size").v
          ELSE 0)

\* C22: the statistics report the length of the list as totalBackups, the
\* number of backups of each status as the four counts, which add up to
\* totalBackups, and the sizes of the completed backups alone as totalSize.
C22_BackupCounts ==
  \A s \in Slots :
    StatsComputed(s) =>
      LET given == GivenBackups(s)
          shown(k) == GetOwn(ShownStats(s), k) IN
      /\ ResultText(s).t = "string" /\ ShownStats(s).t = "object"
      /\ shown("totalBackups") = Num(Len(given))
      /\ shown("completedBackups") = Num(CountStatus(given, "completed"))
      /\ shown("failedBackups") = Num(CountStatus(given, "failed"))
      /\ shown("runningBackups") = Num(CountStatus(given, "running"))
      /\ shown("pendingBackups") = Num(CountStatus(given, "pending"))
      /\ shown("completedBackups").v + shown("failedBackups").v + shown("runningBackups").v
           + shown("pendingBackups").v = shown("totalBackups").v
      /\ shown("totalSize") = Num(CompletedSize(given, Len(given)))

\* four backups, two completed, with the sizes of the other two left out
C22_Witness ==
  \E s \in Slots :
    /\ StatsComputed(s) /\ Len(GivenBackups(s)) = 4
    /\ GetOwn(ShownStats(s), "completedBackups") = Num(2)
    /\ GetOwn(ShownStats(s), "runningBackups") = Num(1)
    /\ GetOwn(ShownStats(s), "totalSize") = Num(300)

\* the completed backups of a list, by position
CompletedAt(items) ==
  {i \in 1..Len(items) : GetOwn(items[i], "status") = Str("completed")}

\* every completed backup carries the time of its completion
CompletionsDated(items) ==
  \A i \in CompletedAt(items) : DateValue(GetOwn(items[i], "completedAt")) # -1

C24_ParseBeforeStatus ==
  \A s \in Slots :
    (Done(s) /\ BadBody(s)) =>
      /\ Threw(s)
      /\ StartsWith(Thrown(s).v, "Invalid JSON response: ")
      /\ Thrown(s) # Error("HTTP error " \o ToString(calls[s].response.status))
      /\ Thrown(s) =
           Error("Invalid JSON response: " \o Substring0(calls[s].response.text, 100))
      /\ calls[s].tool \in DeleteTools =>
           /\ GetOwn(JSONParse(ResultText(s).v).val, "error") = Str(Thrown(s).v)
           /\ ~HasOwn(JSONParse(ResultText(s).v).val, "success")

\* a delete answered with status 500 and a body that is not JSON
C24_Witness ==
  \E s \in Slots :
    /\ Done(s) /\ BadBody(s) /\ calls[s].tool \in DeleteTools
    /\ calls[s].response = [status |-> 500, text |-> "not valid json"]
    /\ Thrown(s) = Error("Invalid JSON response: not valid json")

\* a delete answered with status 200 and a body that is not JSON
C24_WitnessDelete ==
  \E s \in Slots :
    /\ Done(s) /\ BadBody(s) /\ calls[s].tool \in DeleteTools
    /\ calls[s].response = [status |-> 200, text |-> "not valid json"]
    /\ Threw(s)

DeleteKind(tool) ==
  CASE tool = "databasus_delete_database" -> "Database"
    [] tool = "databasus_delete_backup" -> "Backup"
    [] tool = "databasus_delete_storage" -> "Storage"
    [] tool = "databasus_delete_notifier" -> "Notifier"
    [] OTHER -> ""
DeleteSuccess(s) ==
  Obj(<<<<"success", Bool(TRUE)>>,
        <<"message", Str(DeleteKind(calls[s].tool) \o " " \o GetOwn(calls[s].params, "id").v
                         \o " deleted successfully")>>>>)
\* the payload of the result a handler has produced, if it has produced one
ResultPayload(s) ==
  IF calls[s].result.ok THEN JSONParse(ResultText(s).v).val ELSE Undef
DeleteIssued(s) ==
  /\ calls[s].request.method = "DELETE"
  /\ calls[s].request.url =
       baseUrl \o "/api/" \o Collection(calls[s].tool) \o "/" \o GetOwn(calls[s].params, "id").v
  /\ calls[s].request.body = Undef

\* C25: a delete tool reports {success: true, message: "<Kind> <id> deleted
\* successfully"} only once the DELETE request for that id has been issued and
\* answered with a 2xx status; while the request is pending there is no
\* result, and when the request has failed in any way the result holds an
\* error and neither a success flag nor a message.
C25_DeleteReportsAfterSuccess ==
  \A s \in Slots :
    calls[s].tool \in DeleteTools =>
      /\ ~Done(s) => ~calls[s].result.ok
      /\ Done(s) =>
           /\ calls[s].result.ok
           /\ HasOwn(ResultPayload(s), "success") =>
                /\ ResultPayload(s) = DeleteSuccess(s)
                /\ DeleteIssued(s)
                /\ BodyRead(s) /\ Is2xx(calls[s].response.status)
                /\ calls[s].outcome.ok
                /\ calls[s].fetches = 1
           /\ ~calls[s].outcome.ok =>
                /\ HasOwn(ResultPayload(s), "error")
                /\ GetOwn(ResultPayload(s), "error").t = "string"
                /\ ~HasOwn(ResultPayload(s), "success")
                /\ ~HasOwn(ResultPayload(s), "message")
           /\ calls[s].outcome.ok => ResultPayload(s) = DeleteSuccess(s)

\* a storage with an id that needs no escaping in JSON but has a space, a
\* slash and a question mark was deleted, the remote answering 200 with an
\* empty body
C25_Witness ==
  \E s \in Slots :
    /\ Done(s) /\ calls[s].tool = "databasus_delete_storage"
    /\ GetOwn(calls[s].params, "id") = Str("a b/c?d")
    /\ calls[s].response = [status |-> 200, text |-> ""]
    /\ ResultText(s) =
         Str("{\"success\":true,\"message\":\"Storage a b/c?d deleted successfully\"}")

\* the envelope carries isError: true
Flagged(s) == GetOwn(calls[s].result.val, "isError") = Bool(TRUE)
\* the handler ended in its catch block: the client operation threw, or the
\* shaping of its value did
Failed(s) ==
  \/ ~calls[s].outcome.ok
  \/ ~HandlerSuccess(calls[s].tool, calls[s].params, calls[s].outcome.val).ok

\* C26: in every tool group a failed invocation is marked with isError =
\* true in the returned envelope and a successful one is not, so that the
\* flag alone tells failure from success.
C26_Original ==
  \A s \in Slots : Done(s) => (Failed(s) <=> Flagged(s))

\* what the handlers do: the flag is set by the catch blocks of the notifier
\* and the workspace, health and statistics tools only
C26_FlagByGroup ==
  \A s \in Slots :
    Done(s) => (Flagged(s) <=> (Failed(s) /\ calls[s].tool \in NotifierTools \cup WorkspaceTools))

\* key is written in the list keys
Listed(keys, key) == \E i \in 1..Len(keys) : keys[i] = key

\* C27: every keyword of a redactor's own list is effective: an entry of the
\* config map whose key is exactly a listed keyword, the camelCase ones
\* included, and whose value is a string comes out as the redactor's marker.
C27_Original ==
  \A s \in Slots :
    Redacted(s) =>
      \A i \in 1..Len(RemoteConfig(s).v) :
        LET e == RemoteConfig(s).v[i] IN
        (Listed(OwnKeys(calls[s].tool), e[1]) /\ e[2].t = "string") =>
          GetOwn(ShownConfig(s), e[1]) = Str(Marker(calls[s].tool))


\* the keywords of the notifier list that its redactor does not mask
C27_Ineffective ==
  {sensitiveKeys[i] : i \in {j \in 1..Len(sensitiveKeys) :
     maskSensitiveConfig_notifiers(O1(sensitiveKeys[j], Str("v")))
       # O1(sensitiveKeys[j], Str(NotifierMarker))}} = {"apiKey"}

\* the fields an update tool's schema accepts besides the id
UpdateFields(tool) ==
  CASE tool = "databasus_update_database" -> UpdateDatabaseFields
    [] tool = "databasus_toggle_database" -> <<"enabled">>
    [] OTHER -> <<"name", "enabled", "config">>
\* the keys of the object a JSON text stands for
KeysOfText(text) ==
  LET parsed == JSONParse(text).val IN {parsed.v[i][1] : i \in 1..Len(parsed.v)}
Supplied(s) == {calls[s].params.v[i][1] : i \in 1..Len(calls[s].params.v)} \ {"id"}

\* C28: the PUT body of an update tool holds exactly the fields the caller
\* supplied, each with the supplied value, and none of the fields the caller
\* left out; the id is in the URL and not in the body; the body of
\* databasus_toggle_database holds the field enabled and nothing else.
C28_UpdateBody ==
  \A s \in Slots :
    (Issued(s) /\ calls[s].tool \in UpdateTools) =>
      LET id == GetOwn(calls[s].params, "id").v
          fields == UpdateFields(calls[s].tool) IN
      /\ calls[s].request.method = "PUT"
      /\ calls[s].request.url = baseUrl \o "/api/" \o Collection(calls[s].tool) \o "/" \o id
      /\ SentBody(s).t = "string" /\ JSONParse(SentBody(s).v).ok
      /\ JSONParse(SentBody(s).v).val.t = "object"
      /\ KeysOfText(SentBody(s).v) = Supplied(s)
      /\ "id" \notin KeysOfText(SentBody(s).v)
      /\ \A i \in 1..Len(fields) :
           /\ ~HasOwn(calls[s].params, fields[i]) =>
                fields[i] \notin KeysOfText(SentBody(s).v)
           /\ HasOwn(calls[s].params, fields[i]) =>
                GetOwn(JSONParse(SentBody(s).v).val, fields[i])
                  = GetOwn(calls[s].params, fields[i])
      /\ calls[s].tool = "databasus_toggle_database" =>
           SentBody(s) \in {Str("{\"enabled\":true}"), Str("{\"enabled\":false}")}

\* a storage update with enabled and config, and no name, has been sent
C28_Witness ==
  \E s \in Slots :
    /\ Issued(s) /\ calls[s].tool = "databasus_update_storage"
    /\ calls[s].request.url = baseUrl \o "/api/storages/id-1"
    /\ SentBody(s) = Str("{\"enabled\":false,\"config\":{\"token\":\"tk1\"}}")

\* a database update with no field but the id has been sent
C28_WitnessEmpty ==
  \E s \in Slots :
    /\ Issued(s) /\ calls[s].tool = "databasus_update_database"
    /\ Supplied(s) = {} /\ SentBody(s) = Str("{}")

\* what request() settles to, from what this call alone has met
OwnOutcome(s) ==
  IF FetchFailed(s) THEN RequestFetchRejected(calls[s].fetchError)
  ELSE IF BodyRead(s) THEN RequestAfterText(calls[s].response.status, calls[s].response.text)
  ELSE Rejected(BodyError)
\* the request and the outcome of the call in slot s are those the stored
\* configuration, the call's arguments and the call's response determine
Independent(s) ==
  LET call == HandlerCall(calls[s].tool, calls[s].params) IN
  /\ Issued(s) =>
       calls[s].request = RequestOptions(Constructor(databasusConfig), call)
  /\ Done(s) =>
       /\ calls[s].outcome = MethodOutcome(call, OwnOutcome(s))
       /\ calls[s].result = HandlerSettle(calls[s].tool, calls[s].params, calls[s].outcome)
\* two calls alike in tool, arguments and what fetch() gave them are alike in
\* request, outcome and result
Alike(s, t) ==
  (/\ Done(s) /\ Done(t)
   /\ calls[s].tool = calls[t].tool /\ calls[s].params = calls[t].params
   /\ calls[s].fetchError = calls[t].fetchError /\ calls[s].response = calls[t].response
   /\ calls[s].textRead = calls[t].textRead)
  => calls[s] = calls[t]
ConfigurationKept ==
  /\ baseUrl' = baseUrl /\ apiKey' = apiKey /\ bearerToken' = bearerToken
  /\ databasusConfig' = databasusConfig

\* C29: in every sequence and interleaving of client operations, successful
\* or failing, the stored base URL, API key and bearer token stay what the
\* constructor made them, and the request and the outcome of each operation
\* are determined by that configuration, the operation's arguments and its
\* own HTTP response: nothing of an earlier or a concurrent call enters.
C29_NoSharedState ==
  /\ [](client = Constructor(databasusConfig))
  /\ [][ConfigurationKept]_vars
  /\ [](\A s \in Slots : Independent(s))
  /\ [](\A s \in Slots : \A t \in Slots : Alike(s, t))

\* two calls of the same tool are finished at once with different outcomes,
\* one failed and one successful
C29_Witness ==
  /\ Done(1) /\ Done(2)
  /\ calls[1].tool = "databasus_get_database" /\ calls[2].tool = "databasus_get_database"
  /\ calls[1].params = calls[2].params
  /\ calls[1].response.status = 500 /\ ~calls[1].outcome.ok
  /\ calls[2].response.status = 200 /\ calls[2].outcome.ok

UrlGiven == Truthy(process.env.DATABASUS_URL)
Exited == process.pc = "exited"
ConnectCalled == process.connects > 0
ConnectFailed == process.connectError.t # "pending"

\* C30: with DATABASUS_URL unset or empty the process exits with code 1 and
\* no client is constructed, no tool group registered and no transport
\* connected; otherwise the client is constructed once, the five tool groups
\* are registered before the server connects to the transport, and a failed
\* connect exits the process with code 1.
C30_Startup ==
  /\ [](~UrlGiven =>
          /\ process.pc \in {"start", "exited"}
          /\ process.clients = 0 /\ process.servers = 0
          /\ process.registered = <<>> /\ ~ConnectCalled
          /\ databasusConfig = NoConfig)
  /\ [][(~UrlGiven /\ process.pc = "start") =>
          (process'.pc = "exited" /\ process'.exitCode = Num(1))]_vars
  /\ [](UrlGiven =>
          /\ process.clients <= 1 /\ process.connects <= 1
          /\ process.registered # <<>> => process.clients = 1 /\ process.servers = 1
          /\ ConnectCalled =>
               /\ process.clients = 1
               /\ process.registered = ToolGroups
               /\ databasusConfig.baseUrl = process.env.DATABASUS_URL.v
               /\ client = Constructor(databasusConfig)
          /\ Exited <=> ConnectFailed)
  /\ [](Exited => process.exitCode = Num(1))
  /\ [](~Exited => process.exitCode = Undef)
  /\ [][(process.pc = "connecting" /\ process'.connectError.t # "pending") =>
          (process'.pc = "exited" /\ process'.exitCode = Num(1))]_vars

\* the URL is the empty string, an API key is set, and the process has exited
C30_Witness ==
  /\ process.env.DATABASUS_URL = Str("") /\ process.env.DATABASUS_API_KEY = Secret
  /\ Exited /\ process.exitCode = Num(1) /\ process.clients = 0

\* the URL is set, all is registered, and the connect has failed
C30_WitnessConnect ==
  /\ UrlGiven /\ Exited /\ ConnectFailed /\ process.registered = ToolGroups
  /\ process.clients = 1 /\ process.exitCode = Num(1)
====
